---- MODULE Spec2Model ----
(***************************************************************************)
(* State-machine model of the layer stack of kaleidoscope-rs               *)
(* (src/src/layers.rs) with the Atreus keymap (src/src/layers/atreus.rs).  *)
(* A panic ends the firmware (panic_halt, src/src/main.rs:5): it is        *)
(* modelled by the flag halted, after which no operation runs.             *)
(***************************************************************************)
EXTENDS Integers, Sequences, FiniteSets, TLC

\* ---------------------------------------------------------------- bounds
\* layer indices 0..MaxLayer are offered as arguments, plain and shifted
MaxLayer == 3
\* number of operations in one behaviour
MaxSteps == 4
\* layer count in force while the full stack of InitFull is built
WarmLayerCount == 9
\* number of operations run on the full stack of InitFull
FullSteps == 2
\* number of operations in one behaviour of the event handlers
RTSteps == 2
\* number of operations in one behaviour of the report functions
ReportSteps == 3
\* number of physical events in one behaviour of the event ids
IdSteps == 258
\* columns 0..SampleCols-1 of a row can be hot in a sample
SampleCols == 2
\* number of debounce evaluations in one behaviour of the debouncer
DebounceSteps == 6
\* number of scan cycles in one behaviour of the key scanner
ScanSteps == 8
\* number of lock operations and interrupts in one behaviour of the locks
LockSteps == 4
\* number of guards alive at a time
MaxGuards == 2
\* number of byte loads and timer interrupts in one behaviour of the clock
ClockSteps == 9

\* ------------------------------------------------------ program constants
MAX_ACTIVE_LAYERS == 16
ROWS == 4
COLS == 12
NUM_KEYS == ROWS * COLS
NUM_LAYERS == 3
LAYER_SHIFT_OFFSET == 42
Key_Transparent == "Key_Transparent"
Key_NoKey == "Key_NoKey"

KeyAddrs == 0..(NUM_KEYS - 1)
StackIdx == 0..(MAX_ACTIVE_LAYERS - 1)

\* the compiled keymap table, [layer][key address], addressed linearly
KEYMAP_LINEAR ==
  << \* QWERTY
     << "Key_Q", "Key_W", "Key_E", "Key_R", "Key_T", "Key_A",
        "Key_S", "Key_D", "Key_F", "Key_G", "Key_Z", "Key_X",
        "Key_C", "Key_V", "Key_B", "Key_Backtick", "Key_Escape", "Key_Tab",
        "Key_LeftGui", "Key_LeftShift", "Key_Backspace", "Key_LeftControl", "Key_Y", "Key_U",
        "Key_I", "Key_O", "Key_P", "Key_H", "Key_J", "Key_K",
        "Key_L", "Key_Semicolon", "Key_Backslash", "Key_N", "Key_M", "Key_Comma",
        "Key_Period", "Key_Slash", "Key_LeftAlt", "Key_Spacebar", "MO_FUN", "Key_Minus",
        "Key_Quote", "Key_Enter", "Key_NoKey", "Key_NoKey", "Key_NoKey", "Key_NoKey" >>,
     \* FUN
     << "Key_Exclamation", "Key_At", "Key_UpArrow", "Key_Dollar", "Key_Percent", "Key_LeftParen",
        "Key_LeftArrow", "Key_DownArrow", "Key_RightArrow", "Key_RightParen", "Key_LeftBracket", "Key_RightBracket",
        "Key_Hash", "Key_LeftCurlyBracket", "Key_RightCurlyBracket", "Key_Caret", "TG_UPPER", "Key_Insert",
        "Key_LeftGui", "Key_LeftShift", "Key_Delete", "Key_LeftControl", "Key_PageUp", "Key_7",
        "Key_8", "Key_9", "Key_Backspace", "Key_PageDown", "Key_4", "Key_5",
        "Key_6", "Key_Transparent", "Key_And", "Key_Star", "Key_1", "Key_2",
        "Key_3", "Key_Plus", "Key_LeftAlt", "Key_Spacebar", "Key_Transparent", "Key_Period",
        "Key_0", "Key_Equals", "Key_NoKey", "Key_NoKey", "Key_NoKey", "Key_NoKey" >>,
     \* UPPER
     << "Key_Insert", "Key_Home", "Key_UpArrow", "Key_End", "Key_PageUp", "Key_Delete",
        "Key_LeftArrow", "Key_DownArrow", "Key_RightArrow", "Key_PageDown", "M_MACRO_VERSION_INFO", "Consumer_VolumeIncrement",
        "Key_NoKey", "Key_NoKey", "Key_Transparent", "Key_Transparent", "ML_QWERTY", "Consumer_VolumeDecrement",
        "Key_Transparent", "Key_Transparent", "Key_Transparent", "Key_Transparent", "Key_UpArrow", "Key_F7",
        "Key_F8", "Key_F9", "Key_F10", "Key_DownArrow", "Key_F4", "Key_F5",
        "Key_F6", "Key_F11", "Key_Transparent", "Key_NoKey", "Key_F1", "Key_F2",
        "Key_F3", "Key_F12", "Key_Transparent", "Key_Transparent", "ML_QWERTY", "Key_PrintScreen",
        "Key_ScrollLock", "Consumer_PlaySlashPause", "Key_NoKey", "Key_NoKey", "Key_NoKey", "Key_NoKey" >> >>

ZERO_LAYER_KEYMAP == [a \in KeyAddrs |-> 0]

\* outcomes of the on_layer_change hook chain
HookResults == {"Ok", "Error"}

\* layer encodings offered to the operations: plain and shifted
LayerArgs == (0..MaxLayer) \cup {l + LAYER_SHIFT_OFFSET : l \in 0..MaxLayer}

\* ------------------------------------------------------------------ state
VARIABLES
  active_layer_count,   \* Layer.active_layer_count
  active_layers,        \* Layer.active_layers, [u8; MAX_ACTIVE_LAYERS]
  active_layer_keymap,  \* Layer.active_layer_keymap, [u8; NUM_KEYS]
  LAYER_COUNT,          \* the global layer count
  halted,               \* the firmware panicked and halts
  last_op,              \* the last operation: name, argument, outcome, state before it
  steps,                \* number of operations run
  live_keys,            \* LiveKeys.key_map
  keyboard_report,      \* usages pressed in the report of the active keyboard
  consumer_report,      \* usages pressed in the consumer control report
  system_control_report,        \* usage pressed in the system control report
  last_system_control_keycode,  \* Keyboardio.last_system_control_keycode
  last_addr_toggled_on, \* Runtime.last_addr_toggled_on
  lock_flag,            \* the flag of each RawSpinLock
  spinning,             \* the firmware is stuck in the loop of a lock acquisition
  ev,                   \* the last event handled: inputs, outcome, state before it
  LAST_ID,              \* the id of the last physical event, an i8
  event_ids,            \* the ids given to the physical events so far, in order
  debouncer,            \* the debouncer of each row: db0, db1, debounced_state
  matrix,               \* the matrix state of each row: previous, current
  scan,                 \* the last debounce evaluation: sample, changes, steadiness
  guards,               \* the lock guards alive, in the order they were given out
  acquisition,          \* the last lock acquisition: who, which lock, how, outcome
  do_scan,              \* the scan-pending flag of the key scanner
  MILLIS_COUNTER,       \* the four bytes of the millisecond counter, low byte first
  clock                 \* the millis() call in progress and the last two it returned

RuntimeVars == <<live_keys, keyboard_report, consumer_report, system_control_report,
                 last_system_control_keycode, last_addr_toggled_on, lock_flag,
                 spinning>>

vars == <<active_layer_count, active_layers, active_layer_keymap, LAYER_COUNT,
          halted, last_op, steps, live_keys, keyboard_report, consumer_report,
          system_control_report, last_system_control_keycode,
          last_addr_toggled_on, lock_flag, spinning, ev, LAST_ID, event_ids,
          debouncer, matrix, scan, guards, acquisition, do_scan, MILLIS_COUNTER,
          clock>>

IdVars == <<LAST_ID, event_ids>>
ScanVars == <<debouncer, matrix, scan, do_scan>>
LockVars == <<guards, acquisition>>
ClockVars == <<MILLIS_COUNTER, clock>>

Min(S) == CHOOSE x \in S : \A y \in S : x <= y
Max(S) == CHOOSE x \in S : \A y \in S : x >= y

\* ------------------------------------------------------- Layer (pure part)
\* A Layer value together with the outcome of the call in progress:
\*   panic   the call panicked
\*   result  "Ok" or the error the call returns
\*   fired   number of on_layer_change notifications of the call
NewLayer ==
  [count |-> 1, layers |-> [i \in StackIdx |-> 0], keymap |-> ZERO_LAYER_KEYMAP,
   panic |-> FALSE, result |-> "Ok", fired |-> 0]

unshifted(layer) ==
  IF layer >= LAYER_SHIFT_OFFSET THEN layer - LAYER_SHIFT_OFFSET ELSE layer

key(layer, addr) ==
  IF layer >= NUM_LAYERS \/ addr \notin KeyAddrs
    THEN Key_NoKey
    ELSE KEYMAP_LINEAR[layer + 1][addr + 1]

\* self.active_layers[self.active_layer_count - 1]
last_layer(s) == s.layers[s.count - 1]

\* position of the first entry equal to layer, -1 for Err(Error::Layer)
stack_position(s, layer) ==
  LET found == {i \in 0..(s.count - 1) : s.layers[i] = layer}
  IN  IF found = {} THEN -1 ELSE Min(found)

\* copy_within((i+1)..(count-(i+1)), i) panics when the range starts after
\* its end; otherwise it moves that range down by one and count drops by one
remove(s, i) ==
  LET lo == i + 1
      hi == s.count - (i + 1)
  IN  IF lo > hi
        THEN [s EXCEPT !.panic = TRUE]
        ELSE [s EXCEPT
                !.layers = [j \in StackIdx |->
                              IF j >= i /\ j < i + (hi - lo) THEN s.layers[j + 1]
                                                            ELSE s.layers[j]],
                !.count = s.count - 1]

\* loop indices i of update_active_layers, for one address, whose read
\* active_layers[i - 1] is inside the array and yields a non-transparent key
ScanHits(s, addr) ==
  {i \in 1..(s.count - 1) : key(unshifted(s.layers[i - 1]), addr) # Key_Transparent}

\* the loop runs i = count-1 down to 0 and reads active_layers[i - 1]: without
\* an earlier break it reaches i = 0, where the index i - 1 is out of range
ScanPanics(s, addr) == s.count >= 1 /\ ScanHits(s, addr) = {}

ScanLayer(s, addr) == unshifted(s.layers[Max(ScanHits(s, addr)) - 1])

update_active_layers(s) ==
  LET bad  == {a \in KeyAddrs : ScanPanics(s, a)}
      stop == IF bad = {} THEN NUM_KEYS ELSE Min(bad)
  IN  [s EXCEPT
         !.keymap = [a \in KeyAddrs |->
                       IF a < stop /\ ScanHits(s, a) # {} THEN ScanLayer(s, a) ELSE 0],
         !.panic  = (bad # {})]

lookup_on_active_layer(s, addr) == key(s.keymap[addr], addr)

\* Hooks::on_layer_change()?
on_layer_change(s, hr) ==
  [s EXCEPT !.fired = @ + 1,
            !.result = IF hr = "Ok" THEN "Ok" ELSE "Err_Event"]

\* move_layer that resets the count to 0 instead of 1
move_layer_CountZero(s, layer, lc, hr) ==
  IF layer > lc
    THEN s
    ELSE LET s1 == [s EXCEPT !.count = 0, !.layers[0] = layer]
             s2 == update_active_layers(s1)
         IN  IF s2.panic THEN s2 ELSE on_layer_change(s2, hr)

move_layer(s, layer, lc, hr) ==
  IF layer > lc
    THEN s
    ELSE LET s1 == [s EXCEPT !.count = 1, !.layers[0] = layer]
             s2 == update_active_layers(s1)
         IN  IF s2.panic THEN s2 ELSE on_layer_change(s2, hr)

\* eviction that starts while the stack is still below capacity
RECURSIVE evict_Early(_)
evict_Early(s) ==
  IF s.panic \/ s.count < 3 THEN s ELSE evict_Early(remove(s, 0))

RECURSIVE evict(_)
evict(s) ==
  IF s.panic \/ s.count < MAX_ACTIVE_LAYERS THEN s ELSE evict(remove(s, 0))

push(s, layer) ==
  IF s.count \notin StackIdx
    THEN [s EXCEPT !.panic = TRUE]
    ELSE [s EXCEPT !.layers[s.count] = layer, !.count = s.count + 1]

activate(s, layer, lc, hr) ==
  IF unshifted(layer) >= lc
    THEN s
    ELSE LET pos == stack_position(s, layer)
             s1  == IF pos >= 0 THEN remove(s, pos) ELSE s
             s2  == evict(s1)
             s3  == IF s2.panic THEN s2 ELSE push(s2, layer)
             s4  == IF s3.panic THEN s3 ELSE update_active_layers(s3)
         IN  IF s4.panic THEN s4 ELSE on_layer_change(s4, hr)

\* deactivate that takes position 0 when the layer is not on the stack
deactivate_AbsentAsBottom(s, layer, lc, hr) ==
  LET found == stack_position(s, layer)
      pos   == IF found < 0 THEN 0 ELSE found
  IN  IF s.count <= 1
        THEN move_layer(s, 0, lc, hr)
        ELSE LET s1 == remove(s, pos)
                 s2 == IF s1.panic THEN s1 ELSE update_active_layers(s1)
             IN  IF s2.panic THEN s2 ELSE on_layer_change(s2, hr)

deactivate(s, layer, lc, hr) ==
  LET pos == stack_position(s, layer)
  IN  IF pos < 0
        THEN [s EXCEPT !.result = "Err_Layer"]
        ELSE IF s.count <= 1
          THEN move_layer(s, 0, lc, hr)
          ELSE LET s1 == remove(s, pos)
                   s2 == IF s1.panic THEN s1 ELSE update_active_layers(s1)
               IN  IF s2.panic THEN s2 ELSE on_layer_change(s2, hr)

activate_next(s, lc, hr) ==
  IF s.count - 1 \notin StackIdx
    THEN [s EXCEPT !.panic = TRUE]
    ELSE activate(s, last_layer(s) + 1, lc, hr)

deactivate_most_recent(s, lc, hr) ==
  IF s.count - 1 \notin StackIdx
    THEN [s EXCEPT !.panic = TRUE]
    ELSE deactivate(s, last_layer(s), lc, hr)

\* is_active that asks for the plain encoding only
is_active_PlainOnly(s, layer) == stack_position(s, layer) >= 0

\* both the encoding given and that encoding plus LAYER_SHIFT_OFFSET (u8
\* arithmetic) must have a position on the stack
is_active(s, layer) ==
  /\ stack_position(s, layer) >= 0
  /\ stack_position(s, (layer + LAYER_SHIFT_OFFSET) % 256) >= 0

\* -------------------------------------------------------------------- keys
\* Key values are kept symbolic: a key is its name.  Layer keys carry the
\* numeric key code the layer stack decodes; HID keys carry their usage name.
LAYER_MOVE_OFFSET == 84
KEYMAP_PREVIOUS == 33
KEYMAP_NEXT == 34

Key_Masked == "Key_Masked"
Key_Inactive == "Key_Inactive"
Key_Undefined == "Key_Undefined"

\* Key::default(), the key of an event nobody has resolved yet
Key_default == Key_Undefined

Sentinels == {Key_NoKey, Key_Transparent, Key_Masked, Key_Inactive, Key_Undefined}

\* key codes of the layer keys: LockLayer(n) = n, ShiftToLayer(n) =
\* n + LAYER_SHIFT_OFFSET, MoveToLayer(n) = n + LAYER_MOVE_OFFSET
LayerKeyCode ==
  [k \in {"TG_QWERTY", "TG_FUN", "TG_UPPER", "MO_QWERTY", "MO_FUN", "MO_UPPER",
          "ML_QWERTY", "ML_FUN", "ML_UPPER",
          "Key_KeymapPrevious_Shift", "Key_KeymapNext_Shift"} |->
     CASE k = "TG_QWERTY" -> 0
       [] k = "TG_FUN" -> 1
       [] k = "TG_UPPER" -> 2
       [] k = "MO_QWERTY" -> LAYER_SHIFT_OFFSET
       [] k = "MO_FUN" -> LAYER_SHIFT_OFFSET + 1
       [] k = "MO_UPPER" -> LAYER_SHIFT_OFFSET + 2
       [] k = "ML_QWERTY" -> LAYER_MOVE_OFFSET
       [] k = "ML_FUN" -> LAYER_MOVE_OFFSET + 1
       [] k = "ML_UPPER" -> LAYER_MOVE_OFFSET + 2
       [] k = "Key_KeymapPrevious_Shift" -> LAYER_SHIFT_OFFSET + KEYMAP_PREVIOUS
       [] k = "Key_KeymapNext_Shift" -> LAYER_SHIFT_OFFSET + KEYMAP_NEXT]

LayerKeys == DOMAIN LayerKeyCode

\* keys that are a modifier and a layer shift at once: none is bound
ModLayerKeys == {}

SystemControlKeys == {"System_Sleep", "System_WakeUp"}

ConsumerControlKeys ==
  {"Consumer_VolumeIncrement", "Consumer_VolumeDecrement",
   "Consumer_ScanPreviousTrack", "Consumer_ScanNextTrack",
   "Consumer_PlaySlashPause"}

ModifierKeys ==
  {"Key_LeftControl", "Key_LeftShift", "Key_LeftAlt", "Key_LeftGui",
   "Key_RightControl", "Key_RightShift", "Key_RightAlt", "Key_RightGui"}

\* the keys built with lshift!: the key they shift
ShiftedKeys ==
  [k \in {"Key_Exclamation", "Key_At", "Key_Hash", "Key_Dollar", "Key_Percent",
          "Key_Caret", "Key_And", "Key_Star", "Key_LeftParen", "Key_RightParen",
          "Key_Plus"} |->
     CASE k = "Key_Exclamation" -> "Key_1"
       [] k = "Key_At" -> "Key_2"
       [] k = "Key_Hash" -> "Key_3"
       [] k = "Key_Dollar" -> "Key_4"
       [] k = "Key_Percent" -> "Key_5"
       [] k = "Key_Caret" -> "Key_6"
       [] k = "Key_And" -> "Key_7"
       [] k = "Key_Star" -> "Key_8"
       [] k = "Key_LeftParen" -> "Key_9"
       [] k = "Key_RightParen" -> "Key_0"
       [] k = "Key_Plus" -> "Key_Equals"]

PluginKeys == {"M_MACRO_VERSION_INFO"}

is_layer_key(k) == k \in LayerKeys
is_mod_layer_key(k) == k \in ModLayerKeys
is_system_control_key(k) == k \in SystemControlKeys
is_consumer_control_key(k) == k \in ConsumerControlKeys
is_keyboard_modifier(k) == k \in ModifierKeys
is_keyboard_key(k) ==
  k \notin Sentinels \cup LayerKeys \cup ModLayerKeys \cup SystemControlKeys
             \cup ConsumerControlKeys \cup PluginKeys

\* the numeric key code of a layer key
key_code(k) == IF k \in LayerKeys THEN LayerKeyCode[k] ELSE 0

\* the HID usage a key presses, its flags set aside
usage(k) == IF k \in DOMAIN ShiftedKeys THEN ShiftedKeys[k] ELSE k

\* the modifiers named by a key's flags
flag_modifiers(k) == IF k \in DOMAIN ShiftedKeys THEN {"Key_LeftShift"} ELSE {}

\* the layer shift key of a layer
shift_to_layer(layer) ==
  LET ks == {k \in LayerKeys : LayerKeyCode[k] = layer + LAYER_SHIFT_OFFSET}
  IN  IF ks = {} THEN Key_NoKey ELSE CHOOSE k \in ks : TRUE

\* KeyAddr: the valid addresses and the one that stands for no address
InvalidAddr == NUM_KEYS
is_valid(addr) == addr \in KeyAddrs

\* KeyswitchState: the bits was_pressed and is_pressed
KeyswitchStates == [was_pressed : BOOLEAN, is_pressed : BOOLEAN]
key_toggled_on(st) == st.is_pressed /\ ~st.was_pressed
key_toggled_off(st) == st.was_pressed /\ ~st.is_pressed
ToggledOn == [was_pressed |-> FALSE, is_pressed |-> TRUE]
ToggledOff == [was_pressed |-> TRUE, is_pressed |-> FALSE]

\* --------------------------------------------------------------- KeyEvent
\* the values of an i8
I8_MIN == -128
I8_MAX == 127

\* KeyEvent::next that gives the id out and leaves LAST_ID as it was
KeyEvent_next_NoStore(last_id, overflow_checks) ==
  LET id == last_id + 1
  IN  IF id > I8_MAX
        THEN IF overflow_checks
               THEN [id |-> last_id, last_id |-> last_id, panic |-> TRUE]
               ELSE [id |-> I8_MIN, last_id |-> last_id, panic |-> FALSE]
        ELSE [id |-> id, last_id |-> last_id, panic |-> FALSE]

\* KeyEvent::next: the id is LAST_ID + 1 in i8 arithmetic with the plain
\* operator +, which panics on overflow in a build with overflow checks and
\* wraps around in a build without them
KeyEvent_next(last_id, overflow_checks) ==
  LET id == last_id + 1
  IN  IF id > I8_MAX
        THEN IF overflow_checks
               THEN [id |-> last_id, last_id |-> last_id, panic |-> TRUE]
               ELSE [id |-> I8_MIN, last_id |-> I8_MIN, panic |-> FALSE]
        ELSE [id |-> id, last_id |-> id, panic |-> FALSE]

\* ---------------------------------------------------------------- LiveKeys
\* LiveKeys::new: every entry is Key::default()
NewLiveKeys == [a \in KeyAddrs |-> Key_default]

\* Index: an invalid address reads the dummy entry
LiveKeys_index(m, addr) == IF is_valid(addr) THEN m[addr] ELSE Key_Masked

LiveKeys_activate(m, addr, k) == IF is_valid(addr) THEN [m EXCEPT ![addr] = k] ELSE m

LiveKeys_clear(m, addr) == IF is_valid(addr) THEN [m EXCEPT ![addr] = Key_Inactive] ELSE m

LiveKeys_mask(m, addr) == IF is_valid(addr) THEN [m EXCEPT ![addr] = Key_Masked] ELSE m

\* the entries KeyAddrMapIterMut hands out over n entries: next() takes
\* nth(index) of what is left of the slice iterator, which drops index
\* entries and hands out the one after them, and goes on while index is
\* below the number of entries left; consumed entries are gone from it
RECURSIVE KeyAddrMapIterMut_next(_, _, _)
KeyAddrMapIterMut_next(index, consumed, n) ==
  IF index < n - consumed
    THEN {consumed + index}
           \cup KeyAddrMapIterMut_next(index + 1, consumed + index + 1, n)
    ELSE {}

\* LiveKeys::clear_all: every entry the iterator hands out becomes inactive
LiveKeys_clear_all(m) ==
  [a \in KeyAddrs |->
     IF a \in KeyAddrMapIterMut_next(0, 0, NUM_KEYS) THEN Key_Inactive ELSE m[a]]

\* ------------------------------------------------------------------- locks
\* RUNTIME, LIVE_KEYS and LAYER each sit behind a RawSpinLock, one flag.
Locks == {"RUNTIME", "LIVE_KEYS", "LAYER"}

\* try_lock_shared answers with the flag as it stands
try_lock_shared(rt, l) == rt.lock[l]

\* lock_shared loops while try_lock_shared answers false: it returns while
\* the flag is set and spins for good while it is clear
lock_shared(rt, l) == IF try_lock_shared(rt, l) THEN rt ELSE [rt EXCEPT !.spin = TRUE]

\* lock_exclusive runs the same loop, on try_lock_shared
lock_exclusive(rt, l) == IF try_lock_shared(rt, l) THEN rt ELSE [rt EXCEPT !.spin = TRUE]

\* dropping a guard stores false in the flag
unlock_shared(rt, l) == [rt EXCEPT !.lock[l] = FALSE]
unlock_exclusive(rt, l) == [rt EXCEPT !.lock[l] = FALSE]

\* try_lock_exclusive: compare_exchange(false, true) on the flag; ok tells
\* whether the exchange took place
try_lock_exclusive(rt, l) ==
  IF rt.lock[l] = FALSE
    THEN [rt |-> [rt EXCEPT !.lock[l] = TRUE], ok |-> TRUE]
    ELSE [rt |-> rt, ok |-> FALSE]

\* ----------------------------------------------------------------- runtime
\* The state a handler works on and what the call has done so far:
\*   L, lc      the Layer value and the layer count
\*   live       LiveKeys
\*   kbd        usages pressed in the keyboard report of the active keyboard
\*   consumer   usages pressed in the consumer control report
\*   sys        the usage pressed in the system control report, "none" if none
\*   last_sys   last_system_control_keycode ("none" stands for 0)
\*   last_on    last_addr_toggled_on
\*   lock       the lock flags
\*   spin       the call is stuck in the loop of a lock acquisition
\*   failed     a transmission of the call failed
\*   calls      hooks and handlers entered by the call, in order
\*   tx         keyboard reports transmitted by the call, in order
\*   key        the key of the event as resolved so far
\*   last_id    LAST_ID
\*   ids        the ids given to physical events, in order
\*   panic      the call panicked outside the Layer
Call(rt, name) == [rt EXCEPT !.calls = Append(@, name)]

\* results the hooks of one event give, one per hook
HookNames ==
  {"on_keyswitch_event", "on_key_event", "on_layer_change", "on_add_to_report",
   "before_reporting_state", "after_reporting_state", "send_report"}

AllOk == [n \in HookNames |-> "Ok"]

\* every hook succeeds, or exactly one of them does not
HookCases ==
  {AllOk,
   [AllOk EXCEPT !["on_keyswitch_event"] = "Error"],
   [AllOk EXCEPT !["on_key_event"] = "EventConsumed"],
   [AllOk EXCEPT !["on_key_event"] = "Abort"],
   [AllOk EXCEPT !["on_key_event"] = "Error"],
   [AllOk EXCEPT !["on_layer_change"] = "Error"]}

\* lookup_key: the LiveKeys entry, or the active keymap's when it is transparent
lookup_key(rt, addr) ==
  LET r1 == lock_shared(rt, "LIVE_KEYS")
      k  == LiveKeys_index(rt.live, addr)
      r2 == unlock_shared(r1, "LIVE_KEYS")
      r3 == lock_shared(r2, "LAYER")
  IN  IF r1.spin THEN r1
      ELSE IF k # Key_Transparent THEN [r2 EXCEPT !.key = k]
      ELSE IF r3.spin THEN r3
      ELSE [unlock_shared(r3, "LAYER") EXCEPT
              !.key = lookup_on_active_layer(rt.L, addr)]

\* the next/previous keymap keys: shift to the layer above or below the top
\* one (u8 arithmetic), or mask the key when there is no such layer
shift_next_previous(rt, e, target, hr) ==
  LET top == unshifted(last_layer(rt.L))
      t   == IF target = KEYMAP_NEXT THEN (top + 1) % 256 ELSE (top + 255) % 256
      m1  == lock_exclusive(rt, "LIVE_KEYS")
      L1  == activate(rt.L, (t + LAYER_SHIFT_OFFSET) % 256, rt.lc, hr)
      r2  == [rt EXCEPT !.L = L1]
      m2  == lock_exclusive(r2, "LIVE_KEYS")
  IN  IF t >= rt.lc
        THEN IF m1.spin THEN m1
             ELSE [unlock_exclusive(m1, "LIVE_KEYS") EXCEPT
                     !.live = LiveKeys_mask(rt.live, e.addr)]
        ELSE IF L1.panic \/ L1.result # "Ok" THEN r2
        ELSE IF m2.spin THEN m2
        ELSE [unlock_exclusive(m2, "LIVE_KEYS") EXCEPT
                !.live = LiveKeys_activate(rt.live, e.addr, shift_to_layer(t))]

\* the lock toggle: the target goes off the stack when it is the topmost
\* locked entry and on top of it otherwise
lock_toggle(rt, target, hr) ==
  LET locked == {i \in 0..(rt.L.count - 1) : rt.L.layers[i] < LAYER_SHIFT_OFFSET}
      top_locked_layer == IF locked = {} THEN MAX_ACTIVE_LAYERS + 1
                                         ELSE rt.L.layers[Max(locked)]
  IN  IF top_locked_layer = target
        THEN [rt EXCEPT !.L = deactivate(rt.L, target, rt.lc, hr)]
        ELSE [rt EXCEPT !.L = activate(rt.L, target, rt.lc, hr)]

\* The shift branch and the lock branch are else-branches of the test for a
\* toggle-on inside the block of the move keys: a key code below
\* LAYER_MOVE_OFFSET reaches neither.
handle_layer_key_event(rt, e, hr) ==
  LET code     == IF is_mod_layer_key(e.key)
                    THEN (key_code(e.key) \div 8) + LAYER_SHIFT_OFFSET
                    ELSE key_code(e.key)
      on       == key_toggled_on(e.state)
      target   == code - LAYER_SHIFT_OFFSET
  IN  IF code >= LAYER_MOVE_OFFSET
        THEN IF on
               THEN [rt EXCEPT
                       !.L = move_layer(rt.L, code - LAYER_MOVE_OFFSET, rt.lc, hr)]
             ELSE IF code >= LAYER_SHIFT_OFFSET
               THEN IF target \in {KEYMAP_NEXT, KEYMAP_PREVIOUS}
                      THEN IF on THEN shift_next_previous(rt, e, target, hr)
                                 ELSE rt
                    ELSE IF on
                      THEN IF stack_position(rt.L, target + LAYER_SHIFT_OFFSET) < 0
                             THEN [rt EXCEPT
                                     !.L = activate(rt.L, target + LAYER_SHIFT_OFFSET,
                                                    rt.lc, hr)]
                             ELSE rt
                    ELSE [rt EXCEPT
                            !.L = deactivate(rt.L, target + LAYER_SHIFT_OFFSET,
                                             rt.lc, hr)]
             ELSE IF on THEN lock_toggle(rt, code, hr)
             ELSE rt
        ELSE rt

\* ---------------------------------------------------------------- HID driver
\* press_modifiers!: the modifiers named by the key's flags
press_modifiers(rt, k) == [rt EXCEPT !.kbd = @ \cup flag_modifiers(k)]

\* press_key: press_modifiers!, then press_raw_key!
press_key(rt, k) == [rt EXCEPT !.kbd = @ \cup flag_modifiers(k) \cup {usage(k)}]

\* release_key: release_modifiers!, then release_raw_key!
release_key(rt, k) == [rt EXCEPT !.kbd = @ \ (flag_modifiers(k) \cup {usage(k)})]

is_key_pressed(rt, k) == usage(k) \in rt.kbd

\* release_all_keys: release_all on the active keyboard
release_all_keys(rt) == [rt EXCEPT !.kbd = {}]

press_consumer_control(rt, k) == [rt EXCEPT !.consumer = @ \cup {k}]

press_system_control(rt, k) == [rt EXCEPT !.sys = usage(k), !.last_sys = usage(k)]

\* the release goes through only for the key code pressed last
release_system_control(rt, k) ==
  IF usage(k) = rt.last_sys THEN [rt EXCEPT !.sys = "none"] ELSE rt

\* the transmissions of one call, counted from 1: which of them fails, if any
FailingAttempt == [r \in {"Error1", "Error2", "Error3"} |->
                     CASE r = "Error1" -> 1 [] r = "Error2" -> 2 [] r = "Error3" -> 3]

\* send_report of the active keyboard: the report goes out or the call fails
send_report(rt, h) ==
  LET attempt == Len(rt.tx) + (IF rt.failed THEN 1 ELSE 0) + 1
      r       == h["send_report"]
  IN  IF r \in DOMAIN FailingAttempt /\ FailingAttempt[r] = attempt
        THEN [rt EXCEPT !.failed = TRUE]
        ELSE [rt EXCEPT !.tx = Append(@, rt.kbd)]

\* --------------------------------------------------------- report building
\* the modifier a mod-layer key stands for
ModLayerModifier == [k \in ModLayerKeys |-> "Key_LeftControl"]

add_to_report(rt, k, h) ==
  LET r1 == Call(rt, "on_add_to_report")
      k1 == IF is_mod_layer_key(k) THEN ModLayerModifier[k] ELSE k
  IN  IF h["on_add_to_report"] = "Abort" THEN r1
      ELSE IF is_keyboard_key(k1)
        THEN press_key(r1, IF is_keyboard_modifier(k1) THEN k1 ELSE usage(k1))
      ELSE IF is_consumer_control_key(k1) THEN press_consumer_control(r1, k1)
      ELSE r1

\* the loop of prepare_keyboard_report from address a on
RECURSIVE report_live_keys(_, _, _, _)
report_live_keys(rt, e, h, a) ==
  IF a >= NUM_KEYS \/ rt.spin THEN rt
  ELSE IF a = e.addr THEN report_live_keys(rt, e, h, a + 1)
  ELSE LET r1 == lock_shared(rt, "LIVE_KEYS")
           k  == rt.live[a]
           r2 == unlock_shared(r1, "LIVE_KEYS")
       IN  IF r1.spin THEN r1
           ELSE report_live_keys(IF k \in {Key_Inactive, Key_Masked}
                                   THEN r2 ELSE add_to_report(r2, k, h),
                                 e, h, a + 1)

prepare_keyboard_report(rt, e, h) ==
  report_live_keys(release_all_keys(Call(rt, "prepare_keyboard_report")), e, h, 0)

\* the end of send_keyboard_report that hands every hook result on to the
\* transmission
send_keyboard_report_transmit_IgnoreAbort(rt, e, h) ==
  send_report(Call(rt, "before_reporting_state"), h)

\* the end of send_keyboard_report: the hook before the report, then the
\* transmission unless the hook aborts
send_keyboard_report_transmit(rt, e, h) ==
  IF h["before_reporting_state"] = "Abort"
    THEN Call(rt, "before_reporting_state")
    ELSE send_report(Call(rt, "before_reporting_state"), h)

\* send_keyboard_report from the point where the new key is added
finish_keyboard_report(rt, e, h) ==
  send_keyboard_report_transmit(
    IF key_toggled_on(e.state) THEN add_to_report(rt, e.key, h) ELSE rt, e, h)

\* the modifiers of the new key's flags, pressed without a report of their own
send_keyboard_report_modifiers_Unsent(rt, e, h) ==
  IF rt.failed THEN rt
  ELSE IF flag_modifiers(e.key) # {} THEN press_modifiers(rt, e.key)
  ELSE rt

\* the modifiers of the new key's flags go out in a report of their own
send_keyboard_report_modifiers(rt, e, h) ==
  IF rt.failed THEN rt
  ELSE IF flag_modifiers(e.key) # {} THEN send_report(press_modifiers(rt, e.key), h)
  ELSE rt

\* a key code that is already pressed stays pressed and no report goes out
send_keyboard_report_rollover_Kept(rt, e, h) ==
  rt

\* a key code that is already pressed is released in a report of its own
send_keyboard_report_rollover(rt, e, h) ==
  IF is_key_pressed(rt, e.key) THEN send_report(release_key(rt, e.key), h) ELSE rt

\* the key live at the last address toggled on gets its modifiers back
send_keyboard_report_last_key(rt, e, h) ==
  LET r1       == lock_shared(rt, "LIVE_KEYS")
      last_key == LiveKeys_index(rt.live, rt.last_on)
  IN  IF r1.spin THEN r1
      ELSE IF is_keyboard_key(last_key)
        THEN press_modifiers(unlock_shared(r1, "LIVE_KEYS"), last_key)
      ELSE unlock_shared(r1, "LIVE_KEYS")

\* what is left of send_keyboard_report once the rollover is dealt with
send_keyboard_report_rest(rt, e, h) ==
  IF rt.spin \/ rt.failed THEN rt ELSE finish_keyboard_report(rt, e, h)

send_keyboard_report(rt, e, h) ==
  IF key_toggled_on(e.state) /\ is_keyboard_key(e.key)
    THEN send_keyboard_report_rest(
           send_keyboard_report_modifiers(
             send_keyboard_report_rollover(
               [Call(rt, "send_keyboard_report") EXCEPT !.last_on = e.addr], e, h),
             e, h),
           e, h)
  ELSE IF e.addr # rt.last_on
    THEN send_keyboard_report_rest(
           send_keyboard_report_last_key(Call(rt, "send_keyboard_report"), e, h), e, h)
  ELSE finish_keyboard_report(Call(rt, "send_keyboard_report"), e, h)

\* ---------------------------------------------------------- event handlers
\* handle_key_event is written in the order of its statements, last part
\* first; each part gets the state the part before it left.

\* the end of handle_key_event: the hook after the report
handle_key_event_after(r6) ==
  IF r6.spin \/ r6.failed THEN r6 ELSE Call(r6, "after_reporting_state")

\* the keyboard report is sent once it is prepared
handle_key_event_send(r5, e1, h) ==
  IF r5.spin THEN r5 ELSE handle_key_event_after(send_keyboard_report(r5, e1, h))

\* after the layer dispatch: layer keys are done, system control keys go to
\* the HID directly, every other key goes through the keyboard report
handle_key_event_report(r4, e1, h) ==
  IF r4.spin \/ r4.L.panic \/ r4.L.result # "Ok" THEN r4
  ELSE IF is_layer_key(e1.key) THEN r4
  ELSE IF is_system_control_key(e1.key)
    THEN IF key_toggled_on(e1.state) THEN press_system_control(r4, e1.key)
                                     ELSE release_system_control(r4, e1.key)
  ELSE handle_key_event_send(prepare_keyboard_report(r4, e1, h), e1, h)

\* layer keys and mod-layer keys are handed to the Layer
handle_key_event_layer(r3, e1, h) ==
  LET g == lock_exclusive(r3, "LAYER")
  IN  handle_key_event_report(
        IF ~(is_layer_key(e1.key) \/ is_mod_layer_key(e1.key)) THEN r3
        ELSE IF g.spin THEN g
        ELSE unlock_exclusive(
               handle_layer_key_event(Call(g, "handle_layer_key_event"), e1,
                                      h["on_layer_change"]), "LAYER"),
        e1, h)

\* the LiveKeys entry of the event's address is updated, then the event is
\* done when the hook did not say Ok or the key is a sentinel
handle_key_event_live_keys(r2, e1, h) ==
  LET m  == lock_exclusive(r2, "LIVE_KEYS")
      r3 == IF ~is_valid(e1.addr) THEN r2
            ELSE IF m.spin THEN m
            ELSE [unlock_exclusive(m, "LIVE_KEYS") EXCEPT
                    !.live = IF key_toggled_off(e1.state)
                               THEN LiveKeys_clear(r2.live, e1.addr)
                               ELSE LiveKeys_activate(r2.live, e1.addr, e1.key)]
  IN  IF r3.spin THEN r3
      ELSE IF h["on_key_event"] # "Ok"
              \/ e1.key \in {Key_Masked, Key_NoKey, Key_Undefined, Key_Transparent}
        THEN r3
      ELSE handle_key_event_layer(r3, e1, h)

\* handle_key_event that treats an abort like any other failure of the hook
handle_key_event_AbortAsError(rt, e, h) ==
  LET lookup == is_valid(e.addr) /\ (key_toggled_off(e.state) \/ e.key = Key_Undefined)
      r1 == IF lookup THEN lookup_key(rt, e.addr) ELSE [rt EXCEPT !.key = e.key]
  IN  IF r1.spin THEN r1
      ELSE handle_key_event_live_keys(Call(r1, "on_key_event"),
                                      [e EXCEPT !.key = r1.key], h)

handle_key_event(rt, e, h) ==
  LET lookup == is_valid(e.addr) /\ (key_toggled_off(e.state) \/ e.key = Key_Undefined)
      r1 == IF lookup THEN lookup_key(rt, e.addr) ELSE [rt EXCEPT !.key = e.key]
  IN  IF r1.spin THEN r1
      ELSE IF h["on_key_event"] = "Abort" THEN Call(r1, "on_key_event")
      ELSE handle_key_event_live_keys(Call(r1, "on_key_event"),
                                      [e EXCEPT !.key = r1.key], h)

handle_keyswitch_event(rt, e, h) ==
  LET m1 == lock_shared(rt, "LIVE_KEYS")
      k  == LiveKeys_index(rt.live, e.addr)
      m2 == unlock_shared(m1, "LIVE_KEYS")
      m3 == lock_exclusive(m2, "LIVE_KEYS")
      r1 == IF key_toggled_off(e.state) THEN [m2 EXCEPT !.key = k]
            ELSE IF e.key = Key_Undefined THEN lookup_key(rt, e.addr)
            ELSE [rt EXCEPT !.key = e.key]
      r2 == Call(r1, "on_keyswitch_event")
  IN  IF ~is_valid(e.addr) THEN rt
      ELSE IF ~(key_toggled_on(e.state) \/ key_toggled_off(e.state)) THEN rt
      ELSE IF key_toggled_off(e.state) /\ m1.spin THEN m1
      ELSE IF key_toggled_off(e.state) /\ k = Key_Masked
        THEN IF m3.spin THEN m3
             ELSE [unlock_exclusive(m3, "LIVE_KEYS") EXCEPT
                     !.live = LiveKeys_clear(rt.live, e.addr), !.key = k]
      ELSE IF r1.spin THEN r1
      ELSE IF h["on_keyswitch_event"] # "Ok" THEN r2
      ELSE handle_key_event(r2, [e EXCEPT !.key = r1.key], h)

\* ------------------------------------------------------------ key scanner
\* A u16 bit mask is the set of its one bits, the columns.
Rows == 0..(ROWS - 1)
Xor(a, b) == (a \ b) \cup (b \ a)

NewDebouncer == [db0 |-> {}, db1 |-> {}, debounced_state |-> {}]
NewMatrixRow == [previous |-> {}, current |-> {}]

\* debounce that reports the changes and keeps the debounced state as it was
debounce_StateKept(d, sample) ==
  LET delta   == Xor(sample, d.debounced_state)
      db1     == Xor(d.db1, d.db0) \cap delta
      db0     == delta \ d.db0
      changes == delta \ (db0 \cup db1)
  IN  [db0 |-> db0, db1 |-> db1, debounced_state |-> d.debounced_state,
       changes |-> changes]

\* debounce with a counter of one bit: a change is taken at the second
\* evaluation that differs
debounce_FiresOnSecond(d, sample) ==
  LET delta   == Xor(sample, d.debounced_state)
      db0     == delta \ d.db0
      changes == delta \ db0
  IN  [db0 |-> db0, db1 |-> {}, debounced_state |-> Xor(d.debounced_state, changes),
       changes |-> changes]

\* Atmega::debounce on the debouncer d of a row: a two-bit counter per column
\* counts the evaluations in which the sample differs from the debounced
\* state; the column changes when the counter is back at zero
debounce(d, sample) ==
  LET delta   == Xor(sample, d.debounced_state)
      db1     == Xor(d.db1, d.db0) \cap delta
      db0     == delta \ d.db0
      changes == delta \ (db0 \cup db1)
  IN  [db0 |-> db0, db1 |-> db1, debounced_state |-> Xor(d.debounced_state, changes),
       changes |-> changes]

\* the debouncer a debounce evaluation leaves
Debounced(r) == [db0 |-> r.db0, db1 |-> r.db1, debounced_state |-> r.debounced_state]

\* read_cols: the value it returns for a row, the set of the columns read as
\* hot; the pins themselves are read outside these sources, so the returned
\* value is the input of a scan
read_cols(sample) == sample

\* read_matrix from row i on, with the changes found so far: once a row has
\* changed, every row's current state is set to its debounced state
RECURSIVE read_rows(_, _, _, _)
read_rows(st, samples, i, any_debounced_changes) ==
  IF i >= ROWS THEN st
  ELSE LET r    == debounce(st.deb[i], read_cols(samples[i]))
           deb1 == [st.deb EXCEPT ![i] = Debounced(r)]
           any1 == any_debounced_changes \cup r.changes
       IN  read_rows(
             [deb |-> deb1,
              mat |-> IF any1 # {}
                        THEN [j \in Rows |->
                                [st.mat[j] EXCEPT !.current = deb1[j].debounced_state]]
                        ELSE st.mat],
             samples, i + 1, any1)

read_matrix(st, samples) == read_rows(st, samples, 0, {})

\* bit_read(value as u8, bit): shifting a u8 by 8 or more panics in a build
\* with overflow checks and shifts by bit mod 8 in a build without them
bit_read(value, bit, overflow_checks) ==
  IF bit >= 8 /\ overflow_checks THEN [bit |-> 0, panic |-> TRUE]
  ELSE [bit |-> IF (bit % 8) \in value THEN 1 ELSE 0, panic |-> FALSE]

\* KeyAddr::create(row, col)
KeyAddr_create(row, col) == row * COLS + col

\* Base::handle_keyswitch_event: a toggle gets the next event id and goes to
\* the runtime
Base_handle_keyswitch_event(rt, addr, st, h, overflow_checks) ==
  LET n == KeyEvent_next(rt.last_id, overflow_checks)
  IN  IF ~(key_toggled_on(st) \/ key_toggled_off(st)) THEN rt
      ELSE IF n.panic THEN [rt EXCEPT !.panic = TRUE]
      ELSE handle_keyswitch_event(
             [Call(rt, "KeyEvent::next") EXCEPT !.last_id = n.last_id,
                                               !.ids = Append(@, n.id)],
             [addr |-> addr, state |-> st, key |-> Key_default], h)

\* one key of act_on_matrix_scan: a key state other than 0 takes the lock of
\* the runtime for the call of the handler
act_on_key(rt, row, col, mat, h, overflow_checks) ==
  LET p  == bit_read(mat[row].previous, col, overflow_checks)
      c  == bit_read(mat[row].current, col, overflow_checks)
      g  == lock_exclusive(rt, "RUNTIME")
  IN  IF p.panic \/ c.panic THEN [rt EXCEPT !.panic = TRUE]
      ELSE IF p.bit = 0 /\ c.bit = 0 THEN rt
      ELSE IF g.spin THEN g
      ELSE unlock_exclusive(
             Base_handle_keyswitch_event(
               g, KeyAddr_create(row, col),
               [was_pressed |-> p.bit = 1, is_pressed |-> c.bit = 1], h,
               overflow_checks),
             "RUNTIME")

\* the keys act_on_matrix_scan has something to do for: the key state is
\* not 0, or reading it panics
KeyActs(mat, i, overflow_checks) ==
  \/ bit_read(mat[i \div COLS].previous, i % COLS, overflow_checks).panic
  \/ bit_read(mat[i \div COLS].previous, i % COLS, overflow_checks).bit = 1
  \/ bit_read(mat[i \div COLS].current, i % COLS, overflow_checks).bit = 1

\* the loop of act_on_matrix_scan from key i on, rows first, cut short over
\* the keys it has nothing to do for; at is the key it has come to
RECURSIVE act_on_keys(_, _, _, _)
RECURSIVE act_on_keys_from(_, _, _, _)
RECURSIVE act_on_keys_after(_, _, _, _, _)
act_on_keys(st, i, h, overflow_checks) ==
  IF {j \in i..(NUM_KEYS - 1) : KeyActs(st.mat, j, overflow_checks)} = {}
    THEN [st EXCEPT !.at = NUM_KEYS]
    ELSE act_on_keys_from(
           st, Min({j \in i..(NUM_KEYS - 1) : KeyActs(st.mat, j, overflow_checks)}),
           h, overflow_checks)

\* key j is acted on
act_on_keys_from(st, j, h, overflow_checks) ==
  act_on_keys_after(
    act_on_key(st.rt, j \div COLS, j % COLS, st.mat, h, overflow_checks),
    st.mat, j, h, overflow_checks)

\* the loop goes on after key j unless the firmware has stopped there
act_on_keys_after(r1, mat, j, h, overflow_checks) ==
  IF r1.spin \/ r1.panic \/ r1.L.panic
    THEN [rt |-> r1, mat |-> mat, at |-> j]
    ELSE act_on_keys([rt |-> r1, mat |-> mat, at |-> j], j + 1, h, overflow_checks)

\* after the last column of a row the row's previous state becomes its
\* current state
rows_done(done, mat) ==
  [rt  |-> done.rt,
   mat |-> [row \in Rows |->
              IF (row + 1) * COLS <= done.at
                THEN [mat[row] EXCEPT !.previous = mat[row].current]
                ELSE mat[row]]]

act_on_matrix_scan(st, h, overflow_checks) ==
  rows_done(act_on_keys([rt |-> st.rt, mat |-> st.mat, at |-> 0], 0, h,
                        overflow_checks),
            st.mat)

\* scan_matrix once the matrix is read, or was not due to be read
scan_matrix_act(rt, read, h, overflow_checks) ==
  [deb  |-> read.deb,
   read |-> read.mat,
   done |-> act_on_matrix_scan([rt |-> rt, mat |-> read.mat], h, overflow_checks)]

\* scan_matrix: the matrix is read when a scan is due, then acted on; the
\* result holds the debouncers, the matrix as read, and the outcome
scan_matrix(rt, deb, mat, pending, samples, h, overflow_checks) ==
  scan_matrix_act(
    rt,
    IF pending THEN read_matrix([deb |-> deb, mat |-> mat], samples)
               ELSE [deb |-> deb, mat |-> mat],
    h, overflow_checks)

\* ---------------------------------------------------------------- actions
\* the Layer value held in the variables, at the start of a call
Cur ==
  [count |-> active_layer_count, layers |-> active_layers,
   keymap |-> active_layer_keymap, panic |-> FALSE, result |-> "Ok", fired |-> 0]

Pre ==
  [count |-> active_layer_count, layers |-> active_layers,
   keymap |-> active_layer_keymap, layer_count |-> LAYER_COUNT]

\* the state a handler starts from
CurRT ==
  [L |-> Cur, lc |-> LAYER_COUNT, live |-> live_keys, kbd |-> keyboard_report,
   consumer |-> consumer_report, sys |-> system_control_report,
   last_sys |-> last_system_control_keycode, last_on |-> last_addr_toggled_on,
   lock |-> lock_flag, spin |-> FALSE, failed |-> FALSE, calls |-> <<>>,
   tx |-> <<>>, key |-> Key_Undefined, last_id |-> LAST_ID, ids |-> event_ids,
   panic |-> FALSE]

PreRT ==
  [live |-> live_keys, kbd |-> keyboard_report, consumer |-> consumer_report,
   sys |-> system_control_report, last_sys |-> last_system_control_keycode,
   last_on |-> last_addr_toggled_on]

NoEvent ==
  [op |-> "none", addr |-> InvalidAddr, state |-> ToggledOn, key |-> Key_Undefined,
   hooks |-> AllOk, resolved |-> Key_Undefined, calls |-> <<>>, tx |-> <<>>,
   failed |-> FALSE, after_failure |-> FALSE,
   pre |-> [live |-> NewLiveKeys, kbd |-> {}, consumer |-> {}, sys |-> "none",
            last_sys |-> "none", last_on |-> InvalidAddr]]

\* store the outcome r of handler op run on event e with hook results h
ApplyRTCore(op, e, h, r) ==
  /\ active_layer_count' = r.L.count
  /\ active_layers' = r.L.layers
  /\ active_layer_keymap' = r.L.keymap
  /\ halted' = (r.L.panic \/ r.panic)
  /\ last_op' = [op |-> op, layer |-> 0,
                 result |-> IF r.L.panic \/ r.panic THEN "Panic" ELSE r.L.result,
                 fired |-> r.L.fired, pre |-> Pre]
  /\ steps' = steps + 1
  /\ live_keys' = r.live
  /\ keyboard_report' = r.kbd
  /\ consumer_report' = r.consumer
  /\ system_control_report' = r.sys
  /\ last_system_control_keycode' = r.last_sys
  /\ last_addr_toggled_on' = r.last_on
  /\ lock_flag' = r.lock
  /\ spinning' = r.spin
  /\ ev' = [op |-> op, addr |-> e.addr, state |-> e.state, key |-> e.key,
            hooks |-> h, resolved |-> r.key, calls |-> r.calls, tx |-> r.tx,
            failed |-> r.failed, after_failure |-> ev.failed, pre |-> PreRT]
  /\ LAST_ID' = r.last_id
  /\ event_ids' = r.ids
  /\ UNCHANGED LAYER_COUNT
  /\ UNCHANGED <<LockVars, ClockVars>>

\* the same for a handler that leaves the key scanner alone
ApplyRT(op, e, h, r) ==
  /\ ApplyRTCore(op, e, h, r)
  /\ UNCHANGED ScanVars

\* store the outcome r of operation op(layer)
Apply(op, layer, r) ==
  /\ active_layer_count' = r.count
  /\ active_layers' = r.layers
  /\ active_layer_keymap' = r.keymap
  /\ halted' = r.panic
  /\ last_op' = [op |-> op, layer |-> layer,
                 result |-> IF r.panic THEN "Panic" ELSE r.result,
                 fired |-> r.fired, pre |-> Pre]
  /\ steps' = steps + 1
  /\ ev' = NoEvent
  /\ UNCHANGED LAYER_COUNT
  /\ UNCHANGED RuntimeVars
  /\ UNCHANGED <<IdVars, ScanVars>>
  /\ UNCHANGED <<LockVars, ClockVars>>

Running == ~halted /\ ~spinning /\ steps < MaxSteps

Setup ==
  /\ Running
  /\ Apply("setup", 0, update_active_layers(Cur))

SetLayerCount ==
  /\ Running
  /\ \E n \in 1..(MaxLayer + 1) :
       /\ LAYER_COUNT' = n % 256
       /\ last_op' = [op |-> "set_layer_count", layer |-> n, result |-> "Ok",
                      fired |-> 0, pre |-> Pre]
  /\ steps' = steps + 1
  /\ ev' = NoEvent
  /\ UNCHANGED <<active_layer_count, active_layers, active_layer_keymap, halted>>
  /\ UNCHANGED RuntimeVars
  /\ UNCHANGED <<IdVars, ScanVars>>
  /\ UNCHANGED <<LockVars, ClockVars>>

Activate ==
  /\ Running
  /\ \E layer \in LayerArgs, hr \in HookResults :
       Apply("activate", layer, activate(Cur, layer, LAYER_COUNT, hr))

Deactivate ==
  /\ Running
  /\ \E layer \in LayerArgs, hr \in HookResults :
       Apply("deactivate", layer, deactivate(Cur, layer, LAYER_COUNT, hr))

MoveLayer ==
  /\ Running
  /\ \E layer \in LayerArgs, hr \in HookResults :
       Apply("move_layer", layer, move_layer(Cur, layer, LAYER_COUNT, hr))

ActivateNext ==
  /\ Running
  /\ \E hr \in HookResults :
       Apply("activate_next", 0, activate_next(Cur, LAYER_COUNT, hr))

DeactivateMostRecent ==
  /\ Running
  /\ \E hr \in HookResults :
       Apply("deactivate_most_recent", 0, deactivate_most_recent(Cur, LAYER_COUNT, hr))

\* the query is_active(layer): the state is left alone, the answer is recorded
IsActive ==
  /\ Running
  /\ \E layer \in LayerArgs :
       last_op' = [op |-> "is_active", layer |-> layer,
                   result |-> IF is_active(Cur, layer) THEN "true" ELSE "false",
                   fired |-> 0, pre |-> Pre]
  /\ steps' = steps + 1
  /\ ev' = NoEvent
  /\ UNCHANGED <<active_layer_count, active_layers, active_layer_keymap,
                 LAYER_COUNT, halted>>
  /\ UNCHANGED RuntimeVars
  /\ UNCHANGED <<IdVars, ScanVars>>
  /\ UNCHANGED <<LockVars, ClockVars>>

NoOp == [op |-> "none", layer |-> 0, result |-> "Ok", fired |-> 0,
         pre |-> [count |-> 1, layers |-> NewLayer.layers,
                  keymap |-> ZERO_LAYER_KEYMAP, layer_count |-> 1]]

\* inputs of the layer key handler: the layer keys the keymap binds and the
\* two next/previous keys, at an address of the keymap that binds a layer key
LayerKeyArgs ==
  {"MO_FUN", "TG_UPPER", "ML_QWERTY", "Key_KeymapNext_Shift",
   "Key_KeymapPrevious_Shift"}

LayerKeyAddr == 40

\* Layer::handle_layer_key_event called with a layer key event
HandleLayerKeyEvent ==
  /\ Running
  /\ \E k \in LayerKeyArgs, st \in {ToggledOn, ToggledOff}, hr \in HookResults :
       LET e == [addr |-> LayerKeyAddr, state |-> st, key |-> k]
           h == [AllOk EXCEPT !["on_layer_change"] = hr]
       IN  ApplyRT("handle_layer_key_event", e, h,
                   handle_layer_key_event([CurRT EXCEPT !.key = k], e, hr))

\* inputs of the event handlers
EventAddrs == {0, 40, InvalidAddr}
EventStates == {ToggledOn, ToggledOff, [was_pressed |-> TRUE, is_pressed |-> TRUE]}
EventKeys == {Key_Undefined, Key_NoKey, "Key_A", "TG_UPPER", "ML_QWERTY", "System_Sleep"}
LiveKeyArgs == {Key_Masked, "Key_A", "System_Sleep"}

RunningRT == ~halted /\ ~spinning /\ steps < RTSteps

\* Runtime::handle_keyswitch_event, for a physical transition or a caller
\* that set the key beforehand
HandleKeyswitchEvent ==
  /\ RunningRT
  /\ \E addr \in EventAddrs, st \in EventStates, k \in EventKeys, h \in HookCases :
       LET e == [addr |-> addr, state |-> st, key |-> k]
       IN  ApplyRT("handle_keyswitch_event", e, h, handle_keyswitch_event(CurRT, e, h))

\* Runtime::handle_key_event called directly, as plugins do
HandleKeyEvent ==
  /\ RunningRT
  /\ \E addr \in EventAddrs, st \in EventStates, k \in EventKeys, h \in HookCases :
       LET e == [addr |-> addr, state |-> st, key |-> k]
       IN  ApplyRT("handle_key_event", e, h, handle_key_event(CurRT, e, h))

\* a LiveKeys method m called on the live keys
ApplyLive(op, addr, k, m) ==
  /\ live_keys' = m
  /\ ev' = [NoEvent EXCEPT !.op = op, !.addr = addr, !.key = k, !.pre = PreRT]
  /\ last_op' = [NoOp EXCEPT !.op = op, !.pre = Pre]
  /\ steps' = steps + 1
  /\ UNCHANGED <<active_layer_count, active_layers, active_layer_keymap,
                 LAYER_COUNT, halted, keyboard_report, consumer_report,
                 system_control_report, last_system_control_keycode,
                 last_addr_toggled_on, lock_flag, spinning>>
  /\ UNCHANGED <<IdVars, ScanVars>>
  /\ UNCHANGED <<LockVars, ClockVars>>

LiveKeysActivate ==
  /\ RunningRT
  /\ \E addr \in EventAddrs, k \in LiveKeyArgs :
       ApplyLive("LiveKeys::activate", addr, k, LiveKeys_activate(live_keys, addr, k))

LiveKeysClear ==
  /\ RunningRT
  /\ \E addr \in EventAddrs :
       ApplyLive("LiveKeys::clear", addr, Key_Undefined, LiveKeys_clear(live_keys, addr))

LiveKeysMask ==
  /\ RunningRT
  /\ \E addr \in EventAddrs :
       ApplyLive("LiveKeys::mask", addr, Key_Undefined, LiveKeys_mask(live_keys, addr))

LiveKeysClearAll ==
  /\ RunningRT
  /\ ApplyLive("LiveKeys::clear_all", InvalidAddr, Key_Undefined,
               LiveKeys_clear_all(live_keys))

\* inputs of the report functions: a plain key, a key built with lshift! and
\* the key it shifts, at two addresses
ReportAddrs == {0, 40}
ReportKeys == {"Key_A", "Key_Exclamation", "Key_1"}

\* every hook succeeds, or one does not, or one of the transmissions fails
ReportHookCases ==
  {AllOk,
   [AllOk EXCEPT !["before_reporting_state"] = "Abort"],
   [AllOk EXCEPT !["before_reporting_state"] = "Error"],
   [AllOk EXCEPT !["send_report"] = "Error1"],
   [AllOk EXCEPT !["send_report"] = "Error2"],
   [AllOk EXCEPT !["send_report"] = "Error3"]}

RunningReport == ~halted /\ ~spinning /\ steps < ReportSteps

\* Runtime::send_keyboard_report called directly
SendKeyboardReport ==
  /\ RunningReport
  /\ \E addr \in ReportAddrs, st \in {ToggledOn, ToggledOff}, k \in ReportKeys,
        h \in ReportHookCases :
       LET e == [addr |-> addr, state |-> st, key |-> k]
       IN  ApplyRT("send_keyboard_report", e, h,
                   send_keyboard_report([CurRT EXCEPT !.key = k], e, h))

\* Runtime::prepare_keyboard_report called directly
PrepareKeyboardReport ==
  /\ RunningReport
  /\ \E addr \in ReportAddrs, st \in {ToggledOn, ToggledOff}, k \in ReportKeys :
       LET e == [addr |-> addr, state |-> st, key |-> k]
       IN  ApplyRT("prepare_keyboard_report", e, AllOk,
                   prepare_keyboard_report([CurRT EXCEPT !.key = k], e, AllOk))

\* a key is made live at an address, as handle_key_event does on a toggle-on
ReportLiveKey ==
  /\ RunningReport
  /\ \E addr \in ReportAddrs, k \in ReportKeys :
       ApplyLive("LiveKeys::activate", addr, k, LiveKeys_activate(live_keys, addr, k))

\* a physical event reaches handle_keyswitch_event
ReportKeyswitchEvent ==
  /\ RunningReport
  /\ \E addr \in ReportAddrs, st \in {ToggledOn, ToggledOff} :
       LET e == [addr |-> addr, state |-> st, key |-> Key_Undefined]
       IN  ApplyRT("handle_keyswitch_event", e, AllOk,
                   handle_keyswitch_event(CurRT, e, AllOk))

\* KeyEvent::next called for a physical event, in either kind of build
RunningIds == ~halted /\ ~spinning /\ steps < IdSteps

KeyEventNext ==
  /\ RunningIds
  /\ \E overflow_checks \in BOOLEAN :
       LET r == KeyEvent_next(LAST_ID, overflow_checks)
       IN  /\ LAST_ID' = r.last_id
           /\ event_ids' = IF r.panic THEN event_ids ELSE Append(event_ids, r.id)
           /\ halted' = r.panic
           /\ last_op' = [NoOp EXCEPT !.op = "KeyEvent::next",
                                      !.result = IF r.panic THEN "Panic" ELSE "Ok",
                                      !.pre = Pre]
  /\ steps' = steps + 1
  /\ ev' = NoEvent
  /\ UNCHANGED <<active_layer_count, active_layers, active_layer_keymap,
                 LAYER_COUNT>>
  /\ UNCHANGED RuntimeVars
  /\ UNCHANGED ScanVars
  /\ UNCHANGED <<LockVars, ClockVars>>

\* the columns a sample can show hot
HotCols == 0..(SampleCols - 1)
Samples == SUBSET HotCols

\* no debounce evaluation yet
NoScan ==
  [sample |-> {}, changes |-> {}, held |-> [c \in HotCols |-> 0], toggles |-> {},
   ids_before |-> 0, before |-> {}, run |-> [c \in HotCols |-> 0]]

\* for each column, the number of evaluations in a row, the one of sample
\* included, in which the column showed the value it shows in sample
Held(sc, sample) ==
  [c \in HotCols |->
     IF sc.held[c] > 0 /\ ((c \in sample) <=> (c \in sc.sample))
       THEN sc.held[c] + 1 ELSE 1]

\* for each column, the number of evaluations in a row, the one of sample
\* included, in which the sample differed from the debounced state the
\* evaluation found; a run ends with the evaluation that makes it four
Run(sc, state, sample) ==
  [c \in HotCols |->
     IF (c \in sample) <=> (c \in state) THEN 0
     ELSE IF sc.run[c] >= 4 THEN 1
     ELSE sc.run[c] + 1]

RunningDebounce == ~halted /\ ~spinning /\ steps < DebounceSteps

\* one debounce evaluation of row 0
Debounce ==
  /\ RunningDebounce
  /\ \E sample \in Samples :
       /\ debouncer' = [debouncer EXCEPT ![0] = Debounced(debounce(debouncer[0], sample))]
       /\ scan' = [scan EXCEPT !.sample = sample,
                               !.changes = debounce(debouncer[0], sample).changes,
                               !.held = Held(scan, sample),
                               !.before = debouncer[0].debounced_state,
                               !.run = Run(scan, debouncer[0].debounced_state, sample)]
  /\ last_op' = [NoOp EXCEPT !.op = "debounce", !.pre = Pre]
  /\ steps' = steps + 1
  /\ ev' = NoEvent
  /\ UNCHANGED <<active_layer_count, active_layers, active_layer_keymap,
                 LAYER_COUNT, halted, matrix, do_scan>>
  /\ UNCHANGED RuntimeVars
  /\ UNCHANGED IdVars
  /\ UNCHANGED <<LockVars, ClockVars>>

\* the keys whose current state differs from their previous state
Toggles(mat) ==
  {rc \in Rows \X (0..(COLS - 1)) :
     (rc[2] \in mat[rc[1]].current) # (rc[2] \in mat[rc[1]].previous)}

RunningScan == ~halted /\ ~spinning /\ steps < ScanSteps

\* store the outcome r of scan_matrix run with a sample for row 0
ApplyScan(r, pending, sample) ==
  /\ ApplyRTCore("scan_matrix",
                 [addr |-> InvalidAddr, state |-> ToggledOn, key |-> Key_Undefined],
                 AllOk, r.done.rt)
  /\ debouncer' = r.deb
  /\ matrix' = r.done.mat
  /\ do_scan' = FALSE
  /\ scan' = [sample |-> IF pending THEN sample ELSE scan.sample,
              changes |-> IF pending
                            THEN debounce(debouncer[0], sample).changes
                            ELSE scan.changes,
              held |-> IF pending THEN Held(scan, sample) ELSE scan.held,
              toggles |-> Toggles(r.read),
              ids_before |-> Len(event_ids),
              before |-> IF pending THEN debouncer[0].debounced_state
                                    ELSE scan.before,
              run |-> IF pending
                        THEN Run(scan, debouncer[0].debounced_state, sample)
                        ELSE scan.run]

\* one scan cycle of the main loop: scan_matrix with the sample of row 0,
\* due or not, in either kind of build
ScanMatrix ==
  /\ RunningScan
  /\ \E sample \in Samples, overflow_checks \in BOOLEAN :
       ApplyScan(scan_matrix(CurRT, debouncer, matrix, do_scan,
                             [i \in Rows |-> IF i = 0 THEN sample ELSE {}],
                             AllOk, overflow_checks),
                 do_scan, sample)

\* Atmega::set_do_scan(true): a scan becomes due
SetDoScan ==
  /\ RunningScan
  /\ ~do_scan
  /\ do_scan' = TRUE
  /\ last_op' = [NoOp EXCEPT !.op = "set_do_scan", !.pre = Pre]
  /\ steps' = steps + 1
  /\ ev' = NoEvent
  /\ UNCHANGED <<active_layer_count, active_layers, active_layer_keymap,
                 LAYER_COUNT, halted, debouncer, matrix, scan>>
  /\ UNCHANGED RuntimeVars
  /\ UNCHANGED IdVars
  /\ UNCHANGED <<LockVars, ClockVars>>

\* -------------------------------------------------------------- the locks
\* RwLock::read() and RwLock::write() give out a guard once lock_shared or
\* lock_exclusive returns; try_read() and try_write() give one out when
\* try_lock_shared or try_lock_exclusive answers true; dropping a guard
\* unlocks.  The main line calls them; the timer interrupt runs its handler
\* to the end between two steps of the main line.
Modes == {"shared", "exclusive"}

Guard(ctx, l, mode) == [ctx |-> ctx, lock |-> l, mode |-> mode]

\* no acquisition yet
NoAcquisition ==
  [ctx |-> "none", lock |-> "RUNTIME", mode |-> "shared", call |-> "none",
   granted |-> FALSE, held |-> <<>>]

\* the lock flags as a call finds them
CurLock == [lock |-> lock_flag, spin |-> FALSE]

RunningLock == ~halted /\ ~spinning /\ steps < LockSteps

\* what a lock operation leaves alone
LockFrame(op) ==
  /\ last_op' = [NoOp EXCEPT !.op = op, !.pre = Pre]
  /\ steps' = steps + 1
  /\ ev' = NoEvent
  /\ UNCHANGED <<active_layer_count, active_layers, active_layer_keymap,
                 LAYER_COUNT, halted, live_keys, keyboard_report,
                 consumer_report, system_control_report,
                 last_system_control_keycode, last_addr_toggled_on>>
  /\ UNCHANGED IdVars
  /\ UNCHANGED ClockVars

\* the main line calls read() or write() on a lock
Lock ==
  /\ RunningLock
  /\ Len(guards) < MaxGuards
  /\ \E l \in Locks, mode \in Modes :
       LET r == IF mode = "shared" THEN lock_shared(CurLock, l)
                                   ELSE lock_exclusive(CurLock, l)
       IN  /\ spinning' = r.spin
           /\ lock_flag' = r.lock
           /\ guards' = IF r.spin THEN guards
                                  ELSE Append(guards, Guard("main", l, mode))
           /\ acquisition' = [ctx |-> "main", lock |-> l, mode |-> mode,
                          call |-> "lock", granted |-> ~r.spin, held |-> guards]
  /\ LockFrame("lock")
  /\ UNCHANGED ScanVars

\* the main line calls try_read() or try_write() on a lock
TryLock ==
  /\ RunningLock
  /\ Len(guards) < MaxGuards
  /\ \E l \in Locks, mode \in Modes :
       LET x  == try_lock_exclusive(CurLock, l)
           ok == IF mode = "shared" THEN try_lock_shared(CurLock, l) ELSE x.ok
       IN  /\ lock_flag' = IF mode = "shared" THEN lock_flag ELSE x.rt.lock
           /\ guards' = IF ok THEN Append(guards, Guard("main", l, mode))
                              ELSE guards
           /\ acquisition' = [ctx |-> "main", lock |-> l, mode |-> mode,
                          call |-> "try_lock", granted |-> ok, held |-> guards]
  /\ LockFrame("try_lock")
  /\ UNCHANGED <<spinning, ScanVars>>

\* the main line drops one of its guards
Unlock ==
  /\ RunningLock
  /\ \E i \in 1..Len(guards) :
       /\ lock_flag' = (IF guards[i].mode = "shared"
                          THEN unlock_shared(CurLock, guards[i].lock)
                          ELSE unlock_exclusive(CurLock, guards[i].lock)).lock
       /\ guards' = SubSeq(guards, 1, i - 1) \o SubSeq(guards, i + 1, Len(guards))
  /\ LockFrame("unlock")
  /\ UNCHANGED <<spinning, acquisition, ScanVars>>

\* the timer overflow interrupt: RUNTIME.write(), set_do_scan(true) on the
\* key scanner, and the guard is dropped at the end of the statement
TIMER1_OVF ==
  /\ RunningLock
  /\ LET r == lock_exclusive(CurLock, "RUNTIME")
     IN  /\ spinning' = r.spin
         /\ do_scan' = IF r.spin THEN do_scan ELSE TRUE
         /\ lock_flag' = IF r.spin THEN lock_flag
                                   ELSE unlock_exclusive(r, "RUNTIME").lock
         /\ acquisition' = [ctx |-> "TIMER1_OVF", lock |-> "RUNTIME",
                        mode |-> "exclusive", call |-> "lock",
                        granted |-> ~r.spin, held |-> guards]
  /\ LockFrame("TIMER1_OVF")
  /\ UNCHANGED <<guards, debouncer, matrix, scan>>

\* ------------------------------------------------- the millisecond clock
\* A u32 is written as its four bytes, low byte first (to_le_bytes), which
\* is also how AtomicU32 holds it: one AtomicU8 per byte.
AtomicU32_new == <<0, 0, 0, 0>>

PRESCALER == 1024
TIMER_COUNTS == 125
MILLIS_INCREMENT == (PRESCALER * TIMER_COUNTS) \div 16000

\* n + k on a u32, for k below 256: the plain operator + panics on overflow in
\* a build with overflow checks and wraps around in a build without them
u32_add(n, k, overflow_checks) ==
  LET s1 == n[1] + k
      s2 == n[2] + (s1 \div 256)
      s3 == n[3] + (s2 \div 256)
      s4 == n[4] + (s3 \div 256)
  IN  [n        |-> <<s1 % 256, s2 % 256, s3 % 256, s4 % 256>>,
       overflow |-> s4 >= 256,
       panic    |-> s4 >= 256 /\ overflow_checks]

\* a <= b on u32
u32_le(a, b) ==
  \/ a = b
  \/ \E i \in 1..4 : a[i] < b[i] /\ \A j \in (i + 1)..4 : a[j] = b[j]

\* AtomicU32::load up to its k-th byte load: the bytes loaded so far
AtomicU32_load(counter, loaded) == Append(loaded, counter[Len(loaded) + 1])

\* AtomicU32::store: the four byte stores
AtomicU32_store(n) == <<n[1], n[2], n[3], n[4]>>

\* no call of millis() yet
NoClock ==
  [bytes |-> <<>>, seen |-> {}, call_wrap |-> FALSE, since_wrap |-> FALSE,
   last |-> <<>>, last_seen |-> {}, last_wrap |-> FALSE, prev |-> <<>>,
   excused |-> FALSE]

RunningClock == ~halted /\ ~spinning /\ steps < ClockSteps

\* what the clock leaves alone
ClockFrame(op) ==
  /\ last_op' = [NoOp EXCEPT !.op = op, !.pre = Pre]
  /\ steps' = steps + 1
  /\ ev' = NoEvent
  /\ UNCHANGED <<active_layer_count, active_layers, active_layer_keymap,
                 LAYER_COUNT>>
  /\ UNCHANGED RuntimeVars
  /\ UNCHANGED IdVars
  /\ UNCHANGED ScanVars
  /\ UNCHANGED LockVars

\* millis() in the main line, one byte load of MILLIS_COUNTER.load at a
\* time; the fourth load ends the call.  The record keeps the values the
\* counter had during the call, and whether it wrapped around
millis ==
  /\ RunningClock
  /\ LET loaded == AtomicU32_load(MILLIS_COUNTER, clock.bytes)
         seen   == clock.seen \cup {MILLIS_COUNTER}
     IN  clock' = IF Len(loaded) < 4
                    THEN [clock EXCEPT !.bytes = loaded, !.seen = seen]
                    ELSE [bytes |-> <<>>, seen |-> {}, call_wrap |-> FALSE,
                          since_wrap |-> FALSE,
                          last |-> loaded, last_seen |-> seen,
                          last_wrap |-> clock.call_wrap,
                          prev |-> clock.last,
                          excused |-> clock.since_wrap \/ clock.last_wrap]
  /\ ClockFrame("millis")
  /\ UNCHANGED <<MILLIS_COUNTER, halted>>

\* the timer compare interrupt: the counter is loaded, MILLIS_INCREMENT is
\* added and the sum is stored, in either kind of build; the main line does
\* not run meanwhile
TIMER0_COMPA ==
  /\ RunningClock
  /\ \E overflow_checks \in BOOLEAN :
       LET r == u32_add(MILLIS_COUNTER, MILLIS_INCREMENT, overflow_checks)
       IN  /\ halted' = r.panic
           /\ MILLIS_COUNTER' = IF r.panic THEN MILLIS_COUNTER
                                           ELSE AtomicU32_store(r.n)
           /\ clock' = IF r.panic THEN clock
                       ELSE [clock EXCEPT
                               !.seen = IF clock.bytes = <<>> THEN @
                                          ELSE @ \cup {AtomicU32_store(r.n)},
                               !.call_wrap = @ \/ (r.overflow /\ clock.bytes # <<>>),
                               !.since_wrap = @ \/ r.overflow]
  /\ ClockFrame("TIMER0_COMPA")

\* AtmegaInner::new: the debouncers and the matrix state are all zero
InitScanner ==
  /\ debouncer = [i \in Rows |-> NewDebouncer]
  /\ matrix = [i \in Rows |-> NewMatrixRow]
  /\ scan = NoScan
  /\ do_scan = FALSE

\* Runtime::new, LiveKeys::new, Keyboardio::new and the unlocked locks
InitRuntime ==
  /\ live_keys = NewLiveKeys
  /\ keyboard_report = {}
  /\ consumer_report = {}
  /\ system_control_report = "none"
  /\ last_system_control_keycode = "none"
  /\ last_addr_toggled_on = InvalidAddr
  /\ lock_flag = [l \in Locks |-> FALSE]
  /\ spinning = FALSE
  /\ ev = NoEvent
  /\ LAST_ID = 0
  /\ event_ids = <<>>
  /\ guards = <<>>
  /\ acquisition = NoAcquisition
  /\ clock = NoClock

Init ==
  /\ active_layer_count = NewLayer.count
  /\ active_layers = NewLayer.layers
  /\ active_layer_keymap = NewLayer.keymap
  /\ LAYER_COUNT = 1
  /\ halted = FALSE
  /\ last_op = NoOp
  /\ steps = 0
  /\ InitRuntime
  /\ InitScanner
  /\ MILLIS_COUNTER = AtomicU32_new

Next ==
  \/ Setup
  \/ SetLayerCount
  \/ Activate
  \/ Deactivate
  \/ MoveLayer
  \/ ActivateNext
  \/ DeactivateMostRecent
  \/ IsActive

Spec == Init /\ [][Next]_vars

\* ------------------------------------------------- a stack at capacity
\* Layers activated, in this order, on a new Layer with the layer count
\* WarmLayerCount: together with the base layer they fill the stack.
WarmSeq == <<3, 4, 5, 6, 7, 8, 45, 46, 47, 48, 49, 50, 42, 43, 44>>

\* the Layer after activating WarmSeq[from], .., WarmSeq[to] on s
RECURSIVE WarmFrom(_, _, _)
WarmFrom(s, from, to) ==
  IF from > to
    THEN s
    ELSE LET prev == WarmFrom(s, from, to - 1)
         IN  activate([prev EXCEPT !.fired = 0], WarmSeq[to], WarmLayerCount, "Ok")

Warm5 == WarmFrom(NewLayer, 1, 5)
Warm10 == WarmFrom(Warm5, 6, 10)
Warm14 == WarmFrom(Warm10, 11, 14)
FullLayer == WarmFrom(Warm14, 15, 15)

InitFull ==
  \/ Init
  \/ /\ active_layer_count = FullLayer.count
     /\ active_layers = FullLayer.layers
     /\ active_layer_keymap = FullLayer.keymap
     /\ LAYER_COUNT = WarmLayerCount
     /\ halted = FullLayer.panic
     /\ last_op = [op |-> "activate", layer |-> WarmSeq[Len(WarmSeq)],
                   result |-> FullLayer.result, fired |-> FullLayer.fired,
                   pre |-> [count |-> Warm14.count,
                            layers |-> Warm14.layers,
                            keymap |-> Warm14.keymap,
                            layer_count |-> WarmLayerCount]]
     /\ steps = MaxSteps - FullSteps
     /\ InitRuntime
     /\ InitScanner
     /\ MILLIS_COUNTER = AtomicU32_new

SpecFull == InitFull /\ [][Next]_vars

\* ------------------------------------------------ keys, events and layers
\* layer key events next to the calls that set the stack up for them
NextKeys ==
  \/ SetLayerCount
  \/ Activate
  \/ HandleLayerKeyEvent

SpecKeys == Init /\ [][NextKeys]_vars

\* the layer operations and the layer key events under a layer count that
\* was set once, before them
InitFixed ==
  /\ active_layer_count = NewLayer.count
  /\ active_layers = NewLayer.layers
  /\ active_layer_keymap = NewLayer.keymap
  /\ LAYER_COUNT \in 1..(MaxLayer + 1)
  /\ halted = FALSE
  /\ last_op = NoOp
  /\ steps = 0
  /\ InitRuntime
  /\ InitScanner
  /\ MILLIS_COUNTER = AtomicU32_new

NextFixed ==
  \/ Activate
  \/ Deactivate
  \/ MoveLayer
  \/ ActivateNext
  \/ HandleLayerKeyEvent

SpecFixed == InitFixed /\ [][NextFixed]_vars

\* the event handlers of the runtime next to the LiveKeys methods
NextRT ==
  \/ HandleKeyswitchEvent
  \/ HandleKeyEvent
  \/ LiveKeysActivate
  \/ LiveKeysClear
  \/ LiveKeysMask
  \/ LiveKeysClearAll

SpecRT == Init /\ [][NextRT]_vars

\* the report functions next to the calls that set the state up for them
NextReport ==
  \/ SendKeyboardReport
  \/ PrepareKeyboardReport
  \/ ReportLiveKey
  \/ ReportKeyswitchEvent

SpecReport == Init /\ [][NextReport]_vars

\* the ids of the physical events
NextIds == KeyEventNext

SpecIds == Init /\ [][NextIds]_vars

\* the debouncer of row 0 in any state over the columns of the samples
DebouncerStates ==
  [db0 : Samples, db1 : Samples, debounced_state : Samples]

InitDebounce ==
  /\ active_layer_count = NewLayer.count
  /\ active_layers = NewLayer.layers
  /\ active_layer_keymap = NewLayer.keymap
  /\ LAYER_COUNT = 1
  /\ halted = FALSE
  /\ last_op = NoOp
  /\ steps = 0
  /\ InitRuntime
  /\ \E d \in DebouncerStates :
       debouncer = [i \in Rows |-> IF i = 0 THEN d ELSE NewDebouncer]
  /\ matrix = [i \in Rows |-> NewMatrixRow]
  /\ scan = NoScan
  /\ do_scan = FALSE
  /\ MILLIS_COUNTER = AtomicU32_new

NextDebounce == Debounce

SpecDebounce == InitDebounce /\ [][NextDebounce]_vars

\* the debouncer of the key scanner as constructed
SpecDebounceNew == Init /\ [][NextDebounce]_vars

\* the lock operations of the main line next to the timer interrupt
NextLock ==
  \/ Lock
  \/ TryLock
  \/ Unlock
  \/ TIMER1_OVF

SpecLock == Init /\ [][NextLock]_vars

\* the counter after init_millis, after some time, and shortly before it
\* wraps around
ClockStarts == {<<0, 0, 0, 0>>, <<248, 0, 0, 0>>, <<248, 255, 255, 255>>}

InitClock ==
  /\ active_layer_count = NewLayer.count
  /\ active_layers = NewLayer.layers
  /\ active_layer_keymap = NewLayer.keymap
  /\ LAYER_COUNT = 1
  /\ halted = FALSE
  /\ last_op = NoOp
  /\ steps = 0
  /\ InitRuntime
  /\ InitScanner
  /\ MILLIS_COUNTER \in ClockStarts

NextClock ==
  \/ millis
  \/ TIMER0_COMPA

SpecClock == InitClock /\ [][NextClock]_vars

\* the scan cycles of the main loop
NextScan ==
  \/ ScanMatrix
  \/ SetDoScan

SpecScan == Init /\ [][NextScan]_vars

\* ------------------------------------------------------------- vocabulary
\* the active stack, bottom first
Stack == [i \in 1..active_layer_count |-> active_layers[i - 1]]

\* the active stack before the last operation
PreStack == [i \in 1..last_op.pre.count |-> last_op.pre.layers[i - 1]]

Without(seq, layer) == SelectSeq(seq, LAMBDA x : x # layer)

Occurrences(seq, layer) == Cardinality({i \in 1..Len(seq) : seq[i] = layer})

\* seq without its element at position p (1-based)
DropAt(seq, p) == [i \in 1..(Len(seq) - 1) |-> IF i < p THEN seq[i] ELSE seq[i + 1]]

\* the layer index an encoding stands for
Plain(e) == IF e >= LAYER_SHIFT_OFFSET THEN e - LAYER_SHIFT_OFFSET ELSE e

\* the layer a top-to-bottom scan of the stack yields for an address: the
\* topmost entry with a non-transparent key, layer 0 if there is none
TopmostLayer(count, layers, addr) ==
  LET hits == {i \in 0..(count - 1) : key(Plain(layers[i]), addr) # Key_Transparent}
  IN  IF hits = {} THEN 0 ELSE Plain(layers[Max(hits)])

AllTransparent(addr) ==
  \A i \in 0..(active_layer_count - 1) :
     key(Plain(active_layers[i]), addr) = Key_Transparent

\* position (1-based) of the first occurrence of layer in seq, 0 if none
FirstIndex(seq, layer) ==
  IF Occurrences(seq, layer) = 0 THEN 0
  ELSE CHOOSE i \in 1..Len(seq) :
         seq[i] = layer /\ \A j \in 1..(i - 1) : seq[j] # layer

\* an encoding, plain or shifted, of the base layer
IsBase(e) == e = 0 \/ e = LAYER_SHIFT_OFFSET

BasePresent == \E i \in 1..Len(Stack) : IsBase(Stack[i])

PreBasePresent == \E i \in 1..Len(PreStack) : IsBase(PreStack[i])


StateUnchanged ==
  /\ active_layer_count = last_op.pre.count
  /\ active_layers = last_op.pre.layers
  /\ active_layer_keymap = last_op.pre.keymap
  /\ LAYER_COUNT = last_op.pre.layer_count

Completed == last_op.result # "Panic"

\* ------------------------------------------------------------------ claims

\* C1: after every call in any sequence of activate, deactivate and
\* move_layer calls the active layer count is at least 1 and at most
\* MAX_ACTIVE_LAYERS.
C1_CountInRange ==
  active_layer_count >= 1 /\ active_layer_count <= MAX_ACTIVE_LAYERS

\* an activation on a full stack has completed and the stack is full again
C1_Witness ==
  /\ last_op.op = "activate"
  /\ Completed
  /\ last_op.pre.count = MAX_ACTIVE_LAYERS
  /\ last_op.fired = 1
  /\ active_layer_count = MAX_ACTIVE_LAYERS

\* C2: after every completed activate, deactivate or move_layer, for every
\* key address active_layer_keymap holds the unshifted index of the topmost
\* stack entry whose keymap entry there is not Transparent, and 0 if no
\* active layer has one.
C2_KeymapIsTopmost ==
  (last_op.op \in {"activate", "deactivate", "move_layer"} /\ Completed)
    => \A a \in KeyAddrs :
         active_layer_keymap[a] = TopmostLayer(active_layer_count, active_layers, a)

\* C3: for every key address, if every active layer's keymap entry there is
\* Transparent, lookup_on_active_layer returns the base layer's entry.
C3_FallbackToBase ==
  \A a \in KeyAddrs :
     AllTransparent(a)
       => /\ ~halted
          /\ lookup_on_active_layer(Cur, a) = key(0, a)

\* C4: activate of an existing layer on a stack below capacity leaves that
\* layer on top of the stack, exactly once, with all other previous entries
\* present in their previous order.
C4_ActivateMovesToTop ==
  (/\ last_op.op = "activate"
   /\ Plain(last_op.layer) < last_op.pre.layer_count
   /\ last_op.pre.count < MAX_ACTIVE_LAYERS)
    => /\ Completed
       /\ active_layer_count >= 1
       /\ Stack[active_layer_count] = last_op.layer
       /\ Occurrences(Stack, last_op.layer) = 1
       /\ Without(Stack, last_op.layer) = Without(PreStack, last_op.layer)

\* C5: with 16 entries on the stack, activating a further layer that is not
\* yet present evicts exactly the bottom entry, keeps the other 15 in order,
\* pushes the new layer on top and leaves the length at 16.
C5_EvictBottom ==
  (/\ last_op.op = "activate"
   /\ Plain(last_op.layer) < last_op.pre.layer_count
   /\ last_op.pre.count = MAX_ACTIVE_LAYERS
   /\ Occurrences(PreStack, last_op.layer) = 0)
    => /\ Completed
       /\ active_layer_count = MAX_ACTIVE_LAYERS
       /\ Stack = Tail(PreStack) \o <<last_op.layer>>

\* C6: deactivate of a layer present in a stack of two or more entries
\* removes exactly that entry: the layer is gone, the count is one less and
\* the remaining entries keep their order.
C6_DeactivateRemovesEntry ==
  (/\ last_op.op = "deactivate"
   /\ last_op.pre.count >= 2
   /\ Occurrences(PreStack, last_op.layer) > 0)
    => /\ Completed
       /\ Occurrences(Stack, last_op.layer) = 0
       /\ active_layer_count = last_op.pre.count - 1
       /\ Stack = DropAt(PreStack, FirstIndex(PreStack, last_op.layer))

\* C7: deactivate of a layer encoding that is not in the active stack
\* returns the Layer error and leaves the stack, the count and
\* active_layer_keymap unchanged, without firing on_layer_change.
C7_DeactivateAbsent ==
  (/\ last_op.op = "deactivate"
   /\ Occurrences(PreStack, last_op.layer) = 0)
    => /\ last_op.result = "Err_Layer"
       /\ ~halted
       /\ StateUnchanged
       /\ last_op.fired = 0

\* a deactivate of an absent layer has returned, on a stack of several layers
C7_Witness ==
  /\ last_op.op = "deactivate"
  /\ Occurrences(PreStack, last_op.layer) = 0
  /\ last_op.result = "Err_Layer"
  /\ last_op.pre.count >= 2

\* C8: deactivating the sole active layer completes and leaves layer 0 as
\* the sole active layer, with active_layer_keymap all 0.
C8_DeactivateSole ==
  (/\ last_op.op = "deactivate"
   /\ last_op.pre.count = 1
   /\ Occurrences(PreStack, last_op.layer) > 0)
    => /\ Completed
       /\ Stack = <<0>>
       /\ active_layer_keymap = ZERO_LAYER_KEYMAP

\* C9 (as claimed): in every reachable state the base layer is present in
\* the active layer stack.
C9_BaseAlwaysPresent == ~halted => BasePresent

\* C9 (amended): the base layer is on the stack initially, and an activate
\* of a layer that is not yet on a stack below capacity keeps it there.
C9_BaseKeptByPush ==
  /\ last_op.op = "none" => BasePresent
  /\ (/\ last_op.op = "activate"
      /\ PreBasePresent
      /\ Occurrences(PreStack, last_op.layer) = 0
      /\ last_op.pre.count < MAX_ACTIVE_LAYERS)
       => BasePresent

\* an absent layer was activated on a stack of several layers that holds
\* the base layer, and the stack has grown
C9_Witness ==
  /\ last_op.op = "activate"
  /\ Completed
  /\ PreBasePresent
  /\ Occurrences(PreStack, last_op.layer) = 0
  /\ last_op.pre.count >= 3
  /\ active_layer_count = last_op.pre.count + 1

\* C10: move_layer with a layer not above the layer count replaces the stack
\* by exactly that layer, recomputes active_layer_keymap and fires
\* on_layer_change; with a layer above the layer count it changes nothing.
C10_MoveLayer ==
  last_op.op = "move_layer"
    => IF last_op.layer <= last_op.pre.layer_count
         THEN /\ Completed
              /\ Stack = <<last_op.layer>>
              /\ \A a \in KeyAddrs :
                    active_layer_keymap[a] = TopmostLayer(1, active_layers, a)
              /\ last_op.fired = 1
         ELSE /\ Completed
              /\ StateUnchanged
              /\ last_op.fired = 0
\* C11: is_active(layer) answers true exactly when both the encoding asked
\* for and that encoding plus LAYER_SHIFT_OFFSET are entries of the active
\* stack; an encoding that is on the stack alone is reported as not active.
C11_IsActiveNeedsBoth ==
  last_op.op = "is_active" =>
    (last_op.result = "true" <=>
       /\ Occurrences(Stack, last_op.layer) > 0
       /\ Occurrences(Stack, last_op.layer + LAYER_SHIFT_OFFSET) > 0)

\* the query was answered true on a stack holding both encodings
C11_Witness ==
  /\ last_op.op = "is_active"
  /\ last_op.result = "true"
  /\ Occurrences(Stack, last_op.layer) > 0
  /\ Occurrences(Stack, last_op.layer + LAYER_SHIFT_OFFSET) > 0

\* ------------------------------------------------- vocabulary for events
\* hooks and handlers the last event entered
Calls == {ev.calls[i] : i \in 1..Len(ev.calls)}

\* the last event ran one of the two event handlers of the runtime
IsRuntimeEvent == ev.op \in {"handle_keyswitch_event", "handle_key_event"}

\* the handler of the last event has returned
Returned == ~spinning /\ ~halted

LiveKeysUnchanged == live_keys = ev.pre.live

ReportsUnchanged ==
  /\ keyboard_report = ev.pre.kbd
  /\ consumer_report = ev.pre.consumer
  /\ system_control_report = ev.pre.sys
  /\ last_system_control_keycode = ev.pre.last_sys

\* no report was built or transmitted and no report hook ran
NoReport ==
  /\ ev.tx = <<>>
  /\ Calls \cap {"prepare_keyboard_report", "send_keyboard_report",
                 "before_reporting_state", "after_reporting_state"} = {}

\* the layer a shift key targets: its key code less LAYER_SHIFT_OFFSET
ShiftTarget == [k \in {"MO_QWERTY", "MO_FUN", "MO_UPPER"} |->
                  CASE k = "MO_QWERTY" -> 0 [] k = "MO_FUN" -> 1 [] k = "MO_UPPER" -> 2]

\* the top entry of the stack before the last operation, as a layer index
PreTop == Plain(PreStack[Len(PreStack)])

\* C12: after the layer key handler has handled a layer-shift key whose
\* target T is an existing layer, a toggle-on leaves the encoding
\* T + LAYER_SHIFT_OFFSET on the active stack and a toggle-off leaves the
\* stack without it.
C12_ShiftKeyFollowsSwitch ==
  (/\ ev.op = "handle_layer_key_event"
   /\ ev.key \in DOMAIN ShiftTarget
   /\ ShiftTarget[ev.key] < LAYER_COUNT
   /\ Completed)
  => /\ ev.state = ToggledOn =>
          Occurrences(Stack, ShiftTarget[ev.key] + LAYER_SHIFT_OFFSET) > 0
     /\ ev.state = ToggledOff =>
          Occurrences(Stack, ShiftTarget[ev.key] + LAYER_SHIFT_OFFSET) = 0

\* C13: after the layer key handler has handled the toggle-on of a next or
\* previous keymap key, the layer one above or one below the former top
\* layer is on top of the stack in its shifted encoding; when there is no
\* such layer (previous at top layer 0 included) the stack is as before and
\* the LiveKeys entry of the key is Masked.
C13_NextPreviousKeymap ==
  (/\ ev.op = "handle_layer_key_event"
   /\ ev.key \in {"Key_KeymapNext_Shift", "Key_KeymapPrevious_Shift"}
   /\ ev.state = ToggledOn
   /\ Completed)
  => LET target == IF ev.key = "Key_KeymapNext_Shift" THEN PreTop + 1 ELSE PreTop - 1
     IN  IF target >= 0 /\ target < LAYER_COUNT
           THEN Stack[Len(Stack)] = target + LAYER_SHIFT_OFFSET
           ELSE /\ Stack = PreStack
                /\ live_keys[ev.addr] = Key_Masked

\* C14: a key event that passed the key event hook and whose resolved key
\* is a layer-move or layer-lock key is handed to handle_layer_key_event,
\* and no report is rebuilt or transmitted and no report hook runs for it.
C14_MoveLockKeyNoReport ==
  (/\ ev.op = "handle_key_event"
   /\ ev.resolved \in {"TG_UPPER", "ML_QWERTY"}
   /\ "on_key_event" \in Calls
   /\ ev.hooks["on_key_event"] = "Ok")
  => /\ "handle_layer_key_event" \in Calls
     /\ NoReport
     /\ keyboard_report = ev.pre.kbd

\* C15: after a physical toggle-off at an address whose LiveKeys entry was
\* Masked, that entry is Inactive, no hook was invoked, the layer stack is
\* as before and no report was built or transmitted.
C15_MaskedReleaseSilent ==
  (/\ ev.op = "handle_keyswitch_event"
   /\ is_valid(ev.addr)
   /\ ev.state = ToggledOff
   /\ ev.pre.live[ev.addr] = Key_Masked)
  => /\ live_keys[ev.addr] = Key_Inactive
     /\ Calls = {}
     /\ StateUnchanged
     /\ NoReport

\* C16: a toggle-off at an address whose LiveKeys entry is already Inactive
\* is a no-op: the handler returns with LiveKeys, the layer stack and the
\* reports as before, no hook having seen an event and no report sent.
C16_SecondReleaseNoOp ==
  (/\ ev.op = "handle_keyswitch_event"
   /\ is_valid(ev.addr)
   /\ ev.state = ToggledOff
   /\ ev.pre.live[ev.addr] = Key_Inactive)
  => /\ Returned
     /\ LiveKeysUnchanged
     /\ StateUnchanged
     /\ ReportsUnchanged
     /\ Calls = {}
     /\ NoReport

\* C17: when the key event hook answers abort, handle_key_event stops
\* there: it returns with every LiveKeys entry, the layer stack and the
\* reports as they were before the event, nothing further is called and
\* nothing is transmitted.
C17_AbortLeavesAll ==
  (/\ IsRuntimeEvent
   /\ "on_key_event" \in Calls
   /\ ev.hooks["on_key_event"] = "Abort")
  => /\ Returned
     /\ LiveKeysUnchanged
     /\ StateUnchanged
     /\ ReportsUnchanged
     /\ last_addr_toggled_on = ev.pre.last_on
     /\ ev.calls[Len(ev.calls)] = "on_key_event"
     /\ NoReport

\* a key event for a valid address, with a key of its own, was aborted by
\* the hook while another key was live
C17_Witness ==
  /\ ev.op = "handle_key_event"
  /\ ev.addr = 0
  /\ ev.state = ToggledOn
  /\ ev.key = "Key_A"
  /\ "on_key_event" \in Calls
  /\ ev.hooks["on_key_event"] = "Abort"
  /\ live_keys[40] = "System_Sleep"
  /\ Returned

\* C18: when the key event hook answers with a failure other than abort, or
\* the resolved key is Masked, NoKey, Undefined or Transparent, the LiveKeys
\* entry of a valid event address is updated all the same (Inactive on a
\* toggle-off, the resolved key otherwise) and handling stops: no layer
\* dispatch, no report, no report hook.
C18_ShortCircuitUpdatesLiveKeys ==
  (/\ IsRuntimeEvent
   /\ is_valid(ev.addr)
   /\ "on_key_event" \in Calls
   /\ \/ ev.hooks["on_key_event"] \in {"EventConsumed", "Error"}
      \/ /\ ev.hooks["on_key_event"] = "Ok"
         /\ ev.resolved \in {Key_Masked, Key_NoKey, Key_Undefined, Key_Transparent})
  => /\ live_keys[ev.addr] = IF ev.state = ToggledOff THEN Key_Inactive
                                                     ELSE ev.resolved
     /\ "handle_layer_key_event" \notin Calls
     /\ NoReport

\* C19: a physical toggle-on that arrives without a key is resolved by
\* lookup_key to the LiveKeys entry of its address when that entry is not
\* Transparent, and to the entry the keymap of the layer recorded in
\* active_layer_keymap holds for the address otherwise; the keyswitch hook
\* then sees the event with that key.
C19_LookupKey ==
  (/\ ev.op = "handle_keyswitch_event"
   /\ is_valid(ev.addr)
   /\ ev.state = ToggledOn
   /\ ev.key = Key_Undefined)
  => /\ "on_keyswitch_event" \in Calls
     /\ ev.resolved = IF ev.pre.live[ev.addr] # Key_Transparent
                        THEN ev.pre.live[ev.addr]
                        ELSE KEYMAP_LINEAR[last_op.pre.keymap[ev.addr] + 1][ev.addr + 1]

\* C20: a key event that passed the key event hook and whose resolved key
\* is a system-control key returns with that key pressed (toggle-on) or not
\* pressed (toggle-off) in the system-control report, and with no keyboard
\* report prepared or sent, no report hook run and the keyboard and
\* consumer reports as before.
C20_SystemControlDirect ==
  (/\ ev.op = "handle_key_event"
   /\ ev.resolved \in SystemControlKeys
   /\ ev.state \in {ToggledOn, ToggledOff}
   /\ "on_key_event" \in Calls
   /\ ev.hooks["on_key_event"] = "Ok")
  => /\ Returned
     /\ ev.state = ToggledOn => system_control_report = ev.resolved
     /\ ev.state = ToggledOff => system_control_report # ev.resolved
     /\ NoReport
     /\ keyboard_report = ev.pre.kbd
     /\ consumer_report = ev.pre.consumer

\* --------------------------------------------------- the keyboard report
IsSendKeyboardReport == ev.op = "send_keyboard_report"

\* the key code of the event's key
EventUsage == usage(ev.key)

EventToggledOn == ev.state.is_pressed /\ ~ev.state.was_pressed

\* the key codes the live keys give a rebuilt report: every entry of a
\* keyboard key that is neither Inactive nor Masked, the entry at addr aside
Contributions(live, addr) ==
  {IF live[a] \in ModifierKeys THEN live[a] ELSE usage(live[a]) :
     a \in {b \in KeyAddrs \ {addr} :
              live[b] \notin {Key_Inactive, Key_Masked} /\ is_keyboard_key(live[b])}}

\* the reports send_keyboard_report transmits before the one it finishes with
Intermediates ==
  IF EventToggledOn /\ is_keyboard_key(ev.key)
    THEN (IF EventUsage \in ev.pre.kbd THEN 1 ELSE 0)
         + (IF flag_modifiers(ev.key) # {} THEN 1 ELSE 0)
    ELSE 0

\* C21: after prepare_keyboard_report(event) the keyboard report holds
\* exactly the key codes of the live keys at the other addresses that are
\* neither Inactive nor Masked.
C21_PreparedReport ==
  ev.op = "prepare_keyboard_report" =>
    Returned /\ keyboard_report = Contributions(ev.pre.live, ev.addr)

\* C22: when a keyboard key toggles on while its key code is pressed in the
\* report, every report of the event that holds the key code comes after one
\* of the event that does not; when no hook aborts and no transmission
\* fails, at least two reports go out, the first without the key code and
\* the last with it.
C22_RolloverReleaseFirst ==
  (IsSendKeyboardReport /\ EventToggledOn /\ is_keyboard_key(ev.key)
     /\ EventUsage \in ev.pre.kbd) =>
    /\ \A i \in 1..Len(ev.tx) :
         EventUsage \in ev.tx[i] => \E j \in 1..(i - 1) : EventUsage \notin ev.tx[j]
    /\ (~ev.failed /\ ev.hooks = AllOk) =>
         /\ Len(ev.tx) >= 2
         /\ EventUsage \notin ev.tx[1]
         /\ EventUsage \in ev.tx[Len(ev.tx)]

C22_Witness ==
  /\ IsSendKeyboardReport /\ EventToggledOn
  /\ ev.key = "Key_A" /\ ev.addr = 40
  /\ "Key_A" \in ev.pre.kbd
  /\ ev.hooks = AllOk
  /\ Len(ev.tx) = 2
  /\ Returned

\* C23: when a keyboard key with modifier flags toggles on, every report of
\* the event that holds the key code comes after a report of the event that
\* holds the flagged modifiers and not the key code.
C23_ModifiersPrecedeKey ==
  (IsSendKeyboardReport /\ EventToggledOn /\ is_keyboard_key(ev.key)
     /\ flag_modifiers(ev.key) # {}) =>
    \A i \in 1..Len(ev.tx) :
       EventUsage \in ev.tx[i] =>
         \E j \in 1..(i - 1) :
            flag_modifiers(ev.key) \subseteq ev.tx[j] /\ EventUsage \notin ev.tx[j]

C23_Witness ==
  /\ IsSendKeyboardReport /\ EventToggledOn
  /\ ev.key = "Key_Exclamation"
  /\ Len(ev.tx) = 2
  /\ ev.tx[1] = {"Key_LeftShift"}
  /\ ev.tx[2] = {"Key_LeftShift", "Key_1"}
  /\ Returned

\* C24: on a release, or on an event at an address other than the last one
\* toggled on, the modifiers of the keyboard key live at the last address
\* toggled on are pressed in the report transmitted for the event.
C24_ModifiersReasserted ==
  (/\ IsSendKeyboardReport
   /\ ~(EventToggledOn /\ is_keyboard_key(ev.key))
   /\ ev.addr # ev.pre.last_on
   /\ is_valid(ev.pre.last_on)
   /\ is_keyboard_key(ev.pre.live[ev.pre.last_on])
   /\ ev.hooks = AllOk) =>
    /\ Returned
    /\ Len(ev.tx) >= 1
    /\ flag_modifiers(ev.pre.live[ev.pre.last_on]) \subseteq ev.tx[Len(ev.tx)]

\* C25: once send_keyboard_report has called the hook before the report, an
\* abort from the hook leaves the finished report untransmitted, and any
\* other result has it transmitted unless the transmission itself fails.
C25_AbortSuppressesReport ==
  (IsSendKeyboardReport /\ "before_reporting_state" \in Calls) =>
    IF ev.hooks["before_reporting_state"] = "Abort"
      THEN Len(ev.tx) = Intermediates
      ELSE \/ ev.failed /\ Len(ev.tx) = Intermediates
           \/ /\ ~ev.failed
              /\ Len(ev.tx) = Intermediates + 1
              /\ ev.tx[Len(ev.tx)] = keyboard_report

C25_Witness ==
  /\ IsSendKeyboardReport /\ EventToggledOn
  /\ ev.key = "Key_Exclamation"
  /\ ev.hooks["before_reporting_state"] = "Abort"
  /\ "before_reporting_state" \in Calls
  /\ ev.tx = <<{"Key_LeftShift"}>>
  /\ "Key_1" \in keyboard_report
  /\ Returned

\* C26: a transmission that fails in send_keyboard_report is not repeated
\* and no report follows it for the event, and the physical event after it
\* is handled to the end.
C26_FailureNotFatal ==
  /\ (IsSendKeyboardReport /\ ev.failed) =>
       Len(ev.tx) = FailingAttempt[ev.hooks["send_report"]] - 1
  /\ (/\ ev.op = "handle_keyswitch_event"
      /\ ev.after_failure
      /\ is_valid(ev.addr)
      /\ ev.state \in {ToggledOn, ToggledOff}) =>
       Returned

\* ------------------------------------------------------------- event ids
\* n in the range of an i8, wrapped around
Wrap8(n) == ((n + 128) % 256) - 128

NumIds == Len(event_ids)

\* the id of the physical event before the last one, 0 before the first
PreviousId == IF NumIds >= 2 THEN event_ids[NumIds - 1] ELSE 0

\* C27: every physical event gets the id of the one before it plus one, in
\* i8 arithmetic that wraps around from 127 to -128 without a fault.
C27_IdIsPreviousPlusOne ==
  last_op.op = "KeyEvent::next" =>
    /\ ~halted
    /\ NumIds >= 1
    /\ event_ids[NumIds] = Wrap8(PreviousId + 1)
    /\ LAST_ID = event_ids[NumIds]

\* C28 as stated: no two physical events get the same id.
C28_NoSharedId ==
  \A i \in 1..(NumIds - 1) : event_ids[i] # event_ids[NumIds]

\* C28, amended: no two physical events fewer than 256 events apart get the
\* same id.
C28_NoSharedIdWithin256 ==
  \A i \in 1..(NumIds - 1) :
     NumIds - i < 256 => event_ids[i] # event_ids[NumIds]

C28_Witness ==
  /\ last_op.op = "KeyEvent::next"
  /\ ~halted
  /\ NumIds = 257
  /\ event_ids[257] = event_ids[1]
  /\ event_ids[256] = 0

\* ----------------------------------------------------------- key scanner
\* C29: the key transitions of one scan cycle are handled one at a time, each
\* to its end before the next gets its id: the cycle returns with one id
\* given per transition.
C29_OneEventAtATime ==
  (last_op.op = "scan_matrix" /\ scan.toggles # {}) =>
    /\ Returned
    /\ NumIds = scan.ids_before + Cardinality(scan.toggles)

\* C30 as stated: a column whose raw value was the same in at least two
\* debounce evaluations in a row is not in changes and has that value in
\* debounced_state.
C30_SteadyAfterTwo ==
  last_op.op = "debounce" =>
    \A c \in HotCols :
       scan.held[c] >= 2 =>
         /\ c \notin scan.changes
         /\ (c \in debouncer[0].debounced_state) <=> (c \in scan.sample)

\* C30, amended: a column whose raw value was the same in at least four
\* debounce evaluations in a row has that value in debounced_state, and
\* from the fifth such evaluation on it is not in changes.
C30_SteadyAfterFour ==
  last_op.op = "debounce" =>
    \A c \in HotCols :
       /\ scan.held[c] >= 4 =>
            ((c \in debouncer[0].debounced_state) <=> (c \in scan.sample))
       /\ scan.held[c] >= 5 => c \notin scan.changes

C30_Witness ==
  /\ last_op.op = "debounce"
  /\ scan.held[0] = 5
  /\ 0 \in scan.sample
  /\ 0 \in debouncer[0].debounced_state
  /\ scan.held[1] = 1

\* ------------------------------------------------- locks and interrupts
\* the guards on the lock of the last acquisition that were alive when it
\* was made
HeldThen ==
  {i \in 1..Len(acquisition.held) : acquisition.held[i].lock = acquisition.lock}

\* C31: the timer overflow handler only sets the scan-pending flag: it
\* returns with the flag set and has made no acquisition of a lock.
C31_HandlerTakesNoLock ==
  last_op.op = "TIMER1_OVF" =>
    /\ Returned
    /\ do_scan
    /\ acquisition.ctx # "TIMER1_OVF"

\* C32: the lock gives exclusive access to one holder at a time and no
\* shared access next to exclusive access: an acquisition is granted
\* exclusive access only while no guard on the lock is alive, and shared
\* access only while no exclusive guard on it is alive.
C32_MutualExclusion ==
  acquisition.granted =>
    \A i \in HeldThen :
       acquisition.mode = "shared" /\ acquisition.held[i].mode = "shared"

\* C33: a call of millis() returns a value the counter had during the call,
\* and does not return less than the call before it unless the counter
\* wrapped around in between.
C33_MillisIsAtomic ==
  clock.last # <<>> =>
    /\ clock.last \in clock.last_seen
    /\ (clock.prev # <<>> /\ ~clock.excused) => u32_le(clock.prev, clock.last)

\* ---------------------------------------------------------------- LiveKeys
\* C34: after LiveKeys::clear_all every entry of the live keys is inactive,
\* whatever the entries held before.
C34_ClearAllClearsAll ==
  last_op.op = "LiveKeys::clear_all" =>
    \A a \in KeyAddrs : live_keys[a] = Key_Inactive

\* ---------------------------------------------------------------- debounce
\* the column's debounced state is not what the last evaluation found
Flipped(c) ==
  (c \in scan.before) # (c \in debouncer[0].debounced_state)

\* the two-bit counter of the column
Counter(c) ==
  (IF c \in debouncer[0].db0 THEN 1 ELSE 0) + (IF c \in debouncer[0].db1 THEN 2 ELSE 0)

\* C35: a column's debounced state flips at the fourth evaluation in a row
\* whose sample differs from it and at no other; the counter stands at 1, 2,
\* 3 after the first three and at 0 after the fourth; an evaluation whose
\* sample agrees leaves the state and puts the counter at 0; the column is
\* in changes in exactly the evaluation that flips it.
C35_FlipOnFourth ==
  last_op.op = "debounce" =>
    \A c \in HotCols :
       /\ Flipped(c) <=> scan.run[c] = 4
       /\ (c \in scan.changes) <=> Flipped(c)
       /\ Counter(c) = scan.run[c] % 4

C35_Witness ==
  /\ last_op.op = "debounce"
  /\ scan.run[0] = 4
  /\ 0 \in scan.changes
  /\ 0 \in debouncer[0].debounced_state
  /\ scan.run[1] = 0
  /\ scan.held[1] = 1

\* ------------------------------------------------------ lock-toggle keys
\* the layer a lock-toggle key of the inputs targets
LockTarget == [k \in {"TG_UPPER"} |-> key_code(k)]

\* the topmost entry of the stack before the event that is not shifted,
\* MAX_ACTIVE_LAYERS + 1 if there is none
PreTopLocked ==
  LET locked == {i \in 1..Len(PreStack) : PreStack[i] < LAYER_SHIFT_OFFSET}
  IN  IF locked = {} THEN MAX_ACTIVE_LAYERS + 1 ELSE PreStack[Max(locked)]

\* C36: after the layer key handler has handled a lock-toggle key whose
\* target T is an existing layer, a toggle-on has taken T off the stack when
\* T was the topmost unshifted entry and has put T on top of it otherwise;
\* a toggle-off leaves the stack as it was.
C36_LockToggle ==
  (/\ ev.op = "handle_layer_key_event"
   /\ ev.key \in DOMAIN LockTarget
   /\ LockTarget[ev.key] < LAYER_COUNT
   /\ Completed)
  => /\ ev.state = ToggledOn =>
          IF PreTopLocked = LockTarget[ev.key]
            THEN Occurrences(Stack, LockTarget[ev.key]) = 0
            ELSE Stack[Len(Stack)] = LockTarget[ev.key]
     /\ ev.state = ToggledOff => Stack = PreStack

\* ------------------------------------------------------- scan and setup
\* C37: in every scan cycle act_on_matrix_scan runs to its end over all
\* columns of all rows and makes one event, with the next id, for every key
\* whose state changed and none for any other key.
C37_OneEventPerTransition ==
  last_op.op = "scan_matrix" =>
    /\ ~halted
    /\ ~spinning
    /\ NumIds = scan.ids_before + Cardinality(scan.toggles)
    /\ \A row \in Rows : matrix[row].previous = matrix[row].current

\* C38: Layer::setup, which recomputes the keymap from the stack as it
\* stands, returns without a fault and leaves every address mapped to the
\* topmost layer of the stack that has a key there.
C38_SetupInBounds ==
  last_op.op = "setup" =>
    /\ Completed
    /\ \A a \in KeyAddrs :
         active_layer_keymap[a]
           = TopmostLayer(active_layer_count, active_layers, a)

C39_EntriesExistWhileRunning ==
  ~halted => \A i \in 1..Len(Stack) : Plain(Stack[i]) < LAYER_COUNT

\* ------------------------------------------------- acquisitions terminate
\* C40: a read() or write() on a lock of which no guard is held returns
\* with the access granted.
C40_AcquisitionTerminates ==
  (acquisition.call = "lock" /\ HeldThen = {}) =>
    (acquisition.granted /\ ~spinning)
====
